---- MODULE Spec2Model ----
(***************************************************************************)
(* Model of the asutils Claude Code installers: the skill manager          *)
(* (asutils/claude/skill.py) and the agent manager                         *)
(* (asutils/claude/agents/cli.py).                                         *)
(*                                                                         *)
(* A string that may carry a namespace is the sequence of its              *)
(* "/"-separated segments: "foo" is <<"foo">>, "epic/foo" is               *)
(* <<"epic", "foo">>.  A file stem is a single segment.  A file is named   *)
(* by <<stem, extension>>; a path is [dir, stem, ext].                     *)
(***************************************************************************)
EXTENDS Integers, Sequences, FiniteSets, TLC

VARIABLES
  app,    \* the Typer app the session drives: "skill" or "agent"
  dirs,   \* the directories that exist
  files,  \* files[d][<<stem, ext>>]: the text of a file of directory d
  out,    \* what the last command reported (its arguments, exit status, lines)
  pc,           \* search_parallel: where the call is
  futures,      \* search_parallel: the future of each query, in submission order
  all_results,  \* search_parallel: the results gathered so far
  seen_ids,     \* search_parallel: the page ids gathered so far
  procs         \* the add invocations running side by side, in starting order

searchVars == <<pc, futures, all_results, seen_ids>>
vars == <<app, dirs, files, out, pc, futures, all_results, seen_ids, procs>>

\* No call of search_parallel is under way.
NoSearch == pc = "idle" /\ futures = <<>> /\ all_results = <<>> /\ seen_ids = {}
\* No add invocation has been started side by side with another.
NoProcs == procs = <<>>

-----------------------------------------------------------------------------
(* Directories                                                             *)

BUNDLED_SKILLS_DIR == "asutils/claude/skills"
BUNDLED_COMMANDS_DIR == "asutils/claude/commands"
EPIC_SKILLS_DIR == "asutils/claude/skills/epic"
CLAUDE_SKILLS_DIR == "~/.claude/skills"
CLAUDE_COMMANDS_DIR == "~/.claude/commands"
BUNDLED_AGENTS_DIR == "asutils/claude/agents/definitions"
EPIC_AGENTS_DIR == "asutils/claude/agents/epic"
CLAUDE_AGENTS_DIR == "~/.claude/agents"

SkillSourceDirs == {BUNDLED_SKILLS_DIR, EPIC_SKILLS_DIR, BUNDLED_COMMANDS_DIR}
AgentSourceDirs == {BUNDLED_AGENTS_DIR, EPIC_AGENTS_DIR}
SourceDirs == SkillSourceDirs \cup AgentSourceDirs
SkillTargetDirs == {CLAUDE_SKILLS_DIR, CLAUDE_COMMANDS_DIR}
AgentTargetDirs == {CLAUDE_AGENTS_DIR}
TargetDirs == SkillTargetDirs \cup AgentTargetDirs
AllDirs == SourceDirs \cup TargetDirs

\* The extension of the definition files a source directory holds.
SourceExt(d) == IF d = BUNDLED_AGENTS_DIR THEN "yaml" ELSE "md"

\* The stems the bundled data of a source directory may hold.
SourceStems(d) ==
  IF d = BUNDLED_SKILLS_DIR THEN {"foo", "claude-hooks"}
  ELSE IF d = BUNDLED_AGENTS_DIR THEN {"foo", "bar"}
  ELSE {"foo"}

\* The listing order of a directory is the file system's: any total order.
Stems == {"foo", "claude-hooks", "bar"}
OrdersOf(S) == {o \in [1..Cardinality(S) -> S] : \A s \in S : \E i \in DOMAIN o : o[i] = s}

-----------------------------------------------------------------------------
(* Values                                                                  *)

NoName == <<>>          \* name is None
NoBundle == "<None>"    \* bundle is None
EmptyMap == [k \in {} |-> k]

Str(stem) == <<stem>>
Prefixed(ns, name) == <<ns>> \o name          \* f"{ns}/{name}"
StartsWith(name, ns) == Len(name) >= 2 /\ name[1] = ns   \* name.startswith(f"{ns}/")
SplitTail(name) == Tail(name)                 \* name.split("/", 1)[1]
RECURSIVE Joined(_)
Joined(name) ==                               \* the name as one string: "/".join
  IF Len(name) = 1 THEN name[1] ELSE name[1] \o "/" \o Joined(Tail(name))
Truthy(bundle) == bundle \notin {NoBundle, ""}

\* dict assignment of every item of b into a: a later assignment replaces.
Merge(a, b) == [k \in DOMAIN a \cup DOMAIN b |-> IF k \in DOMAIN b THEN b[k] ELSE a[k]]

SeqToSet(s) == {s[i] : i \in DOMAIN s}

\* The text of a bundled definition file.
SourceText(d, stem) == <<d, stem>>

\* The metadata at the head of a text (a YAML document, or the frontmatter of
\* a Markdown file): a mapping with a description, a text the YAML parser
\* rejects, or a document that parses to None.  A text <<d, stem>> carries a
\* mapping; <<d, stem, kind>> carries metadata of the given kind.
MetaKinds == {"mapping", "malformed", "none"}
TextWith(d, stem, kind) == IF kind = "mapping" THEN SourceText(d, stem) ELSE <<d, stem, kind>>
MetaOf(text) == IF Len(text) = 3 THEN text[3] ELSE "mapping"
DescriptionOf(text) == <<"description", text[1], text[2]>>
NoDescription == <<>>

FS(ds, fl) == [dirs |-> ds, files |-> fl]
Cur == FS(dirs, files)

read_text(fs, path) == fs.files[path.dir][<<path.stem, path.ext>>]
exists(fs, path) == path.dir \in fs.dirs /\ <<path.stem, path.ext>> \in DOMAIN fs.files[path.dir]
mkdir(fs, d) == [fs EXCEPT !.dirs = @ \cup {d}]
Path(d, stem, ext) == [dir |-> d, stem |-> stem, ext |-> ext]

\* A file-system fault the environment injects into one command: opening one
\* file for writing, or unlinking it, is refused (permission denied) and
\* raises OSError.
NoFault == [dir |-> "", stem |-> "", ext |-> "", kind |-> "none"]
Hits(fault, path, kinds) ==
  /\ fault.kind \in kinds
  /\ fault.dir = path.dir /\ fault.stem = path.stem /\ fault.ext = path.ext

\* A variant of the write that leaves an existing file as it is.
write_text_NoClobber(fs, path, text, fault) ==
  IF Hits(fault, path, {"denied"}) THEN [fs |-> fs, raised |-> TRUE]
  ELSE IF exists(fs, path) THEN [fs |-> fs, raised |-> FALSE]
  ELSE [fs |-> [fs EXCEPT !.files[path.dir] =
                  Merge(@, [k \in {<<path.stem, path.ext>>} |-> text])],
        raised |-> FALSE]

\* target.write_text(text): the new file system and whether OSError was raised.
\* A refused open leaves the file as it was.
write_text(fs, path, text, fault) ==
  IF Hits(fault, path, {"denied"}) THEN [fs |-> fs, raised |-> TRUE]
  ELSE [fs |-> [fs EXCEPT !.files[path.dir] =
                  Merge(@, [k \in {<<path.stem, path.ext>>} |-> text])],
        raised |-> FALSE]

\* path.unlink()
unlink(fs, path, fault) ==
  IF Hits(fault, path, {"unlink"}) THEN [fs |-> fs, raised |-> TRUE]
  ELSE [fs |-> [fs EXCEPT !.files[path.dir] =
                  [k \in DOMAIN @ \ {<<path.stem, path.ext>>} |-> @[k]]],
        raised |-> FALSE]

\* {f.stem: f for f in d.glob("*." + ext)} if d.exists() else {}
Scan(fs, d, ext) ==
  IF d \in fs.dirs
  THEN [k \in {Str(f[1]) : f \in {g \in DOMAIN fs.files[d] : g[2] = ext}}
          |-> Path(d, Joined(k), ext)]
  ELSE EmptyMap

\* list(m.keys()) of a scan: the keys in the listing order ord.
Keys(m, ord) ==
  LET all == [i \in DOMAIN ord |-> Str(ord[i])]
      In(k) == k \in DOMAIN m
  IN SelectSeq(all, In)

-----------------------------------------------------------------------------
(* asutils/claude/skill.py                                                 *)

BUNDLES ==
  [minimal |-> <<>>, default |-> <<>>, dev |-> <<Str("claude-hooks")>>,
   all |-> <<>>, epic |-> <<>>, commands |-> <<>>]

get_bundled_skills(fs) == Scan(fs, BUNDLED_SKILLS_DIR, "md")
get_epic_skills(fs) == Scan(fs, EPIC_SKILLS_DIR, "md")
get_bundled_commands(fs) == Scan(fs, BUNDLED_COMMANDS_DIR, "md")
\* A variant of the installed listing that also scans the commands
\* directory.
get_installed_skills_WithCommands(fs) ==
  Merge(Scan(fs, CLAUDE_COMMANDS_DIR, "md"), Scan(fs, CLAUDE_SKILLS_DIR, "md"))
get_installed_skills(fs) == Scan(fs, CLAUDE_SKILLS_DIR, "md")
get_installed_commands(fs) == Scan(fs, CLAUDE_COMMANDS_DIR, "md")

\* m with every key k renamed to ns/k
WithPrefix(ns, m) ==
  [k \in {Prefixed(ns, j) : j \in DOMAIN m} |-> m[SplitTail(k)]]

get_all_available_skills(fs) ==
  Merge(Merge(get_bundled_skills(fs), WithPrefix("epic", get_epic_skills(fs))),
        WithPrefix("commands", get_bundled_commands(fs)))

PrefixAll(ns, names) == [i \in DOMAIN names |-> Prefixed(ns, names[i])]

\* The result of a resolution: the list it returned; fail names the condition
\* it raised instead, "none" when it returned.
Returned(names) == [fail |-> "none", names |-> names]

\* A variant of the resolution that reads every bundle, the dynamic ones
\* included, from the static table.
get_bundle_skills_Static(bundle, ord, fs) ==
  IF bundle \in DOMAIN BUNDLES THEN Returned(BUNDLES[bundle]) ELSE Returned(<<>>)

get_bundle_skills(bundle, ord, fs) ==
  IF bundle \in {"all", "default"} THEN Returned(Keys(get_bundled_skills(fs), ord))
  ELSE IF bundle = "epic" THEN Returned(PrefixAll("epic", Keys(get_epic_skills(fs), ord)))
  ELSE IF bundle = "commands"
    THEN Returned(PrefixAll("commands", Keys(get_bundled_commands(fs), ord)))
  ELSE IF bundle \in DOMAIN BUNDLES THEN Returned(BUNDLES[bundle])
  ELSE Returned(<<>>)

\* One line of a command's report: the name processed, the name it was
\* installed under, the file concerned and the outcome printed for it.
Entry(name, installed_name, target, outcome) ==
  [name |-> name, installed_name |-> installed_name, target |-> target,
   outcome |-> outcome]
NoPath == Path("", "", "")

\* The result of running a command on a file system.
Result(fs, exit, raised, msg, todo, resolved, report) ==
  [fs |-> fs, exit |-> exit, raised |-> raised, msg |-> msg, todo |-> todo,
   resolved |-> resolved, report |-> report]

\* raise typer.Exit(1) before anything was done
Exit1(fs, msg, resolved) == Result(fs, 1, "Exit", msg, <<>>, resolved, <<>>)

\* The end of a command whose loop stopped in state st: an uncaught exception
\* ends the process with status 1.
Finish(st, msg, todo, resolved) ==
  Result(st.fs, IF st.raised = "none" THEN 0 ELSE 1, st.raised, msg, todo,
         resolved, st.report)

Loop0(fs) == [fs |-> fs, report |-> <<>>, raised |-> "none"]

\* A variant of the loop body that names the target after the display name,
\* namespace included.
AddSkillItem_KeepPrefix(st, skill_name, all_skills, force, fault) ==
  IF skill_name \notin DOMAIN all_skills
  THEN [st EXCEPT !.report = Append(@, Entry(skill_name, skill_name, NoPath, "NotFound"))]
  ELSE
    LET nested == StartsWith(skill_name, "epic") \/ StartsWith(skill_name, "commands")
        target_dir == IF nested THEN CLAUDE_COMMANDS_DIR ELSE CLAUDE_SKILLS_DIR
        fs1 == mkdir(st.fs, target_dir)
        target == Path(target_dir, Joined(skill_name), "md")
    IN IF exists(fs1, target) /\ ~force
       THEN [st EXCEPT !.fs = fs1,
                       !.report = Append(@, Entry(skill_name, skill_name, target, "Skipped"))]
       ELSE
         LET w == write_text(fs1, target, read_text(fs1, all_skills[skill_name]), fault)
         IN [fs |-> w.fs, raised |-> IF w.raised THEN "OSError" ELSE "none",
             report |-> Append(st.report,
                               Entry(skill_name, skill_name, target,
                                     IF w.raised THEN "Failed" ELSE "Installed"))]

\* A variant of the loop body without the existence check: it overwrites an
\* installed file whether or not --force was given.
AddSkillItem_NoSkip(st, skill_name, all_skills, force, fault) ==
  IF skill_name \notin DOMAIN all_skills
  THEN [st EXCEPT !.report = Append(@, Entry(skill_name, skill_name, NoPath, "NotFound"))]
  ELSE
    LET nested == StartsWith(skill_name, "epic") \/ StartsWith(skill_name, "commands")
        target_dir == IF nested THEN CLAUDE_COMMANDS_DIR ELSE CLAUDE_SKILLS_DIR
        installed_name == IF nested THEN SplitTail(skill_name) ELSE skill_name
        target == Path(target_dir, Joined(installed_name), "md")
        w == write_text(mkdir(st.fs, target_dir), target,
                        read_text(st.fs, all_skills[skill_name]), fault)
    IN [fs |-> w.fs, raised |-> IF w.raised THEN "OSError" ELSE "none",
        report |-> Append(st.report,
                          Entry(skill_name, installed_name, target,
                                IF w.raised THEN "Failed" ELSE "Installed"))]

\* The body of the for loop of add_skill.
AddSkillItem(st, skill_name, all_skills, force, fault) ==
  IF skill_name \notin DOMAIN all_skills
  THEN [st EXCEPT !.report = Append(@, Entry(skill_name, skill_name, NoPath, "NotFound"))]
  ELSE
    LET is_epic == StartsWith(skill_name, "epic")
        is_command == StartsWith(skill_name, "commands")
        target_dir == IF is_epic \/ is_command THEN CLAUDE_COMMANDS_DIR
                      ELSE CLAUDE_SKILLS_DIR
        installed_name == IF is_epic \/ is_command THEN SplitTail(skill_name)
                          ELSE skill_name
        fs1 == mkdir(st.fs, target_dir)
        target == Path(target_dir, Joined(installed_name), "md")
    IN IF exists(fs1, target) /\ ~force
       THEN [st EXCEPT !.fs = fs1,
                       !.report = Append(@, Entry(skill_name, installed_name, target, "Skipped"))]
       ELSE
         LET source == all_skills[skill_name]
             w == write_text(fs1, target, read_text(fs1, source), fault)
         IN IF w.raised
            THEN [fs |-> w.fs, raised |-> "OSError",
                  report |-> Append(st.report, Entry(skill_name, installed_name, target, "Failed"))]
            ELSE [fs |-> w.fs, raised |-> "none",
                  report |-> Append(st.report, Entry(skill_name, installed_name, target, "Installed"))]

\* A variant of the loop that ends at the first name missing from the catalog
\* (break in place of continue).
RECURSIVE AddSkillLoop_StopAtMissing(_, _, _, _, _)
AddSkillLoop_StopAtMissing(st, todo, all_skills, force, fault) ==
  IF todo = <<>> \/ st.raised # "none" THEN st
  ELSE IF Head(todo) \notin DOMAIN all_skills
  THEN AddSkillItem(st, Head(todo), all_skills, force, fault)
  ELSE AddSkillLoop_StopAtMissing(AddSkillItem(st, Head(todo), all_skills, force, fault),
                                  Tail(todo), all_skills, force, fault)

\* for skill_name in skills_to_install: ...   (an exception leaves the loop)
RECURSIVE AddSkillLoop(_, _, _, _, _)
AddSkillLoop(st, todo, all_skills, force, fault) ==
  IF todo = <<>> \/ st.raised # "none" THEN st
  ELSE AddSkillLoop(AddSkillItem(st, Head(todo), all_skills, force, fault),
                    Tail(todo), all_skills, force, fault)

add_skill(fs, name, bundle, force, fault, ord) ==
  IF name = NoName /\ bundle = NoBundle
  THEN Exit1(fs, "Provide either a skill name or --bundle", Returned(<<>>))
  ELSE
    LET all_skills == get_all_available_skills(fs)
        resolved == IF Truthy(bundle) THEN get_bundle_skills(bundle, ord, fs)
                    ELSE Returned(<<name>>)
        skills_to_install == resolved.names
    IN IF Truthy(bundle) /\ skills_to_install = <<>>
       THEN Exit1(fs, "Unknown or empty bundle", resolved)
       ELSE Finish(AddSkillLoop(Loop0(fs), skills_to_install, all_skills, force, fault),
                   "", skills_to_install, resolved)

\* for skill_name in skills_to_remove: installed[skill_name].unlink()
RECURSIVE RemoveLoop(_, _, _, _)
RemoveLoop(st, todo, installed, fault) ==
  IF todo = <<>> \/ st.raised # "none" THEN st
  ELSE
    LET u == unlink(st.fs, installed[Head(todo)], fault)
        next == IF u.raised
                THEN [fs |-> u.fs, raised |-> "OSError",
                      report |-> Append(st.report, Entry(Head(todo), Head(todo), installed[Head(todo)], "Failed"))]
                ELSE [fs |-> u.fs, raised |-> "none",
                      report |-> Append(st.report, Entry(Head(todo), Head(todo), installed[Head(todo)], "Removed"))]
    IN RemoveLoop(next, Tail(todo), installed, fault)

\* A variant of remove that looks the names up among the bundled skills
\* instead of the installed ones.
remove_skill_FromBundled(fs, name, bundle, all_skills, fault, ord) ==
  IF name = NoName /\ bundle = NoBundle /\ ~all_skills
  THEN Exit1(fs, "Provide a skill name, --bundle, or --all", Returned(<<>>))
  ELSE
    LET installed == get_bundled_skills(fs)
        IsInstalled(s) == s \in DOMAIN installed
        resolved == IF ~all_skills /\ Truthy(bundle)
                    THEN get_bundle_skills(bundle, ord, fs) ELSE Returned(<<>>)
        skills_to_remove ==
          IF all_skills THEN Keys(installed, ord)
          ELSE IF Truthy(bundle) THEN SelectSeq(resolved.names, IsInstalled)
          ELSE IF name \in DOMAIN installed THEN <<name>> ELSE <<>>
    IN IF skills_to_remove = <<>>
       THEN Result(fs, 0, "none", "No matching skills to remove", <<>>, resolved, <<>>)
       ELSE Finish(RemoveLoop(Loop0(fs), skills_to_remove, installed, fault),
                   "", skills_to_remove, resolved)

\* A variant of remove that takes --bundle for --all.
remove_skill_WholeDirectory(fs, name, bundle, all_skills, fault, ord) ==
  IF name = NoName /\ bundle = NoBundle /\ ~all_skills
  THEN Exit1(fs, "Provide a skill name, --bundle, or --all", Returned(<<>>))
  ELSE
    LET installed == get_installed_skills(fs)
        resolved == IF ~all_skills /\ Truthy(bundle)
                    THEN get_bundle_skills(bundle, ord, fs) ELSE Returned(<<>>)
        skills_to_remove ==
          IF all_skills \/ Truthy(bundle) THEN Keys(installed, ord)
          ELSE IF name \in DOMAIN installed THEN <<name>> ELSE <<>>
    IN IF skills_to_remove = <<>>
       THEN Result(fs, 0, "none", "No matching skills to remove", <<>>, resolved, <<>>)
       ELSE Finish(RemoveLoop(Loop0(fs), skills_to_remove, installed, fault),
                   "", skills_to_remove, resolved)

remove_skill(fs, name, bundle, all_skills, fault, ord) ==
  IF name = NoName /\ bundle = NoBundle /\ ~all_skills
  THEN Exit1(fs, "Provide a skill name, --bundle, or --all", Returned(<<>>))
  ELSE
    LET installed == get_installed_skills(fs)
        IsInstalled(s) == s \in DOMAIN installed
        resolved == IF ~all_skills /\ Truthy(bundle)
                    THEN get_bundle_skills(bundle, ord, fs) ELSE Returned(<<>>)
        skills_to_remove ==
          IF all_skills THEN Keys(installed, ord)
          ELSE IF Truthy(bundle) THEN SelectSeq(resolved.names, IsInstalled)
          ELSE IF name \in DOMAIN installed THEN <<name>> ELSE <<>>
    IN IF skills_to_remove = <<>>
       THEN Result(fs, 0, "none", "No matching skills to remove", <<>>, resolved, <<>>)
       ELSE Finish(RemoveLoop(Loop0(fs), skills_to_remove, installed, fault),
                   "", skills_to_remove, resolved)

\* sorted(m.items()): the keys in alphabetical order
Alphabetical == <<"bar", "claude-hooks", "foo">>
Sorted(m) == Keys(m, Alphabetical)

\* A table of a listing: whether it was printed, and its rows.
NotShown == [shown |-> FALSE, rows |-> <<>>]
Shown(rows) == [shown |-> TRUE, rows |-> rows]
Row(name, desc, mark) == [name |-> name, desc |-> desc, mark |-> mark]
YesNo(b) == IF b THEN "yes" ELSE "no"

\* The description list_skills extracts from the frontmatter of a file:
\* any exception of the parse or of meta.get leaves it empty.
SkillDescription(fs, path) ==
  LET content == read_text(fs, path)
  IN IF MetaOf(content) = "mapping" THEN DescriptionOf(content) ELSE NoDescription

\* The result of a listing or of a show: exit status, exception, tables.
Listing(exit, raised, msg, table) ==
  [exit |-> exit, raised |-> raised, msg |-> msg, table |-> table]

list_skills(fs, bundled, installed, epic, commands) ==
  LET all == ~bundled /\ ~installed /\ ~epic /\ ~commands
      b == bundled \/ all
      i == installed \/ all
      e == epic \/ all
      c == commands \/ all
      bundled_skills == get_bundled_skills(fs)
      bundled_cmds == get_bundled_commands(fs)
      epic_skills == get_epic_skills(fs)
      installed_skills == get_installed_skills(fs)
      installed_commands == get_installed_commands(fs)
      Rows(m, R(_)) == [k \in DOMAIN Sorted(m) |-> R(Sorted(m)[k])]
      BundledRow(n) == Row(n, NoDescription, YesNo(n \in DOMAIN installed_skills))
      EpicRow(n) == Row(Prefixed("epic", n), SkillDescription(fs, epic_skills[n]),
                        YesNo(n \in DOMAIN installed_commands))
      CommandRow(n) == Row(Prefixed("commands", n), SkillDescription(fs, bundled_cmds[n]),
                           YesNo(n \in DOMAIN installed_commands))
      SkillRow(n) == Row(n, NoDescription,
                         IF n \in DOMAIN bundled_skills THEN "bundled" ELSE "custom")
      InstalledCommandRow(n) ==
        Row(n, NoDescription,
            IF n \in DOMAIN epic_skills THEN "epic"
            ELSE IF n \in DOMAIN bundled_cmds THEN "bundled" ELSE "custom")
  IN Listing(0, "none", "",
       [bundled |-> IF b THEN Shown(Rows(bundled_skills, BundledRow)) ELSE NotShown,
        epic |-> IF e THEN Shown(Rows(epic_skills, EpicRow)) ELSE NotShown,
        commands |-> IF c THEN Shown(Rows(bundled_cmds, CommandRow)) ELSE NotShown,
        installed |-> IF i THEN Shown(Rows(installed_skills, SkillRow)) ELSE NotShown,
        installed_commands |-> IF i THEN Shown(Rows(installed_commands, InstalledCommandRow))
                               ELSE NotShown])

show_skill(fs, name, installed) ==
  LET skills == IF installed THEN get_installed_skills(fs) ELSE get_bundled_skills(fs)
  IN IF name \notin DOMAIN skills
     THEN Listing(1, "Exit", "not found", <<>>)
     ELSE Listing(0, "none", "", <<read_text(fs, skills[name])>>)

\* list_bundles: the skills shown for each row of the table
list_bundles(fs, ord) ==
  [bundle_name \in DOMAIN BUNDLES |-> get_bundle_skills(bundle_name, ord, fs).names]

-----------------------------------------------------------------------------
(* asutils/claude/agents/cli.py                                            *)

get_bundled_agents(fs) == Scan(fs, BUNDLED_AGENTS_DIR, "yaml")
get_epic_agents(fs) == Scan(fs, EPIC_AGENTS_DIR, "md")

\* A variant of the merge that enters the epic agents under their plain names.
get_all_available_agents_Unprefixed(fs) ==
  Merge(get_bundled_agents(fs), get_epic_agents(fs))

get_all_available_agents(fs) ==
  Merge(get_bundled_agents(fs), WithPrefix("epic", get_epic_agents(fs)))

\* A variant of the listing that reads the *.md files first: a stem present
\* with both extensions maps to the YAML file.
get_installed_agents_YamlWins(fs) ==
  Merge(Scan(fs, CLAUDE_AGENTS_DIR, "md"), Scan(fs, CLAUDE_AGENTS_DIR, "yaml"))

\* The *.yaml files first, then the *.md files: a stem present with both
\* extensions maps to the Markdown file.
get_installed_agents(fs) ==
  Merge(Scan(fs, CLAUDE_AGENTS_DIR, "yaml"), Scan(fs, CLAUDE_AGENTS_DIR, "md"))

\* A variant of the loop body that skips an installed agent even under --force.
AddAgentItem_ForceIgnored(st, agent_name, all_available, installed, force, fault) ==
  IF agent_name \notin DOMAIN all_available
  THEN [st EXCEPT !.report = Append(@, Entry(agent_name, agent_name, NoPath, "NotFound"))]
  ELSE
    LET source == all_available[agent_name]
        installed_name == IF StartsWith(agent_name, "epic") THEN SplitTail(agent_name)
                          ELSE agent_name
        target == Path(CLAUDE_AGENTS_DIR, Joined(installed_name), source.ext)
    IN IF installed_name \in DOMAIN installed \/ exists(st.fs, target)
       THEN [st EXCEPT !.report = Append(@, Entry(agent_name, installed_name, target, "Skipped"))]
       ELSE
         LET w == write_text(st.fs, target, read_text(st.fs, source), fault)
         IN [fs |-> w.fs, raised |-> IF w.raised THEN "OSError" ELSE "none",
             report |-> Append(st.report,
                               Entry(agent_name, installed_name, target,
                                     IF w.raised THEN "Failed" ELSE "Installed"))]

\* The body of the for loop of add_agent; installed is the listing taken
\* before the loop.
AddAgentItem(st, agent_name, all_available, installed, force, fault) ==
  IF agent_name \notin DOMAIN all_available
  THEN [st EXCEPT !.report = Append(@, Entry(agent_name, agent_name, NoPath, "NotFound"))]
  ELSE
    LET source == all_available[agent_name]
        installed_name == IF StartsWith(agent_name, "epic") THEN SplitTail(agent_name)
                          ELSE agent_name
        ext == source.ext
        target == Path(CLAUDE_AGENTS_DIR, Joined(installed_name), ext)
    IN IF installed_name \in DOMAIN installed /\ ~force
       THEN [st EXCEPT !.report = Append(@, Entry(agent_name, installed_name, target, "Skipped"))]
       ELSE
         LET w == write_text(st.fs, target, read_text(st.fs, source), fault)
         IN IF w.raised
            THEN [fs |-> w.fs, raised |-> "OSError",
                  report |-> Append(st.report, Entry(agent_name, installed_name, target, "Failed"))]
            ELSE [fs |-> w.fs, raised |-> "none",
                  report |-> Append(st.report, Entry(agent_name, installed_name, target, "Installed"))]

RECURSIVE AddAgentLoop(_, _, _, _, _, _)
AddAgentLoop(st, todo, all_available, installed, force, fault) ==
  IF todo = <<>> \/ st.raised # "none" THEN st
  ELSE AddAgentLoop(AddAgentItem(st, Head(todo), all_available, installed, force, fault),
                    Tail(todo), all_available, installed, force, fault)

add_agent(fs, name, all_agents, bundle, force, fault, ord) ==
  IF name = NoName /\ ~all_agents /\ bundle = NoBundle
  THEN Exit1(fs, "Provide an agent name, --all, or --bundle", Returned(<<>>))
  ELSE IF bundle # "epic" /\ ~all_agents /\ name = NoName
  THEN \* name.startswith on None: AttributeError, uncaught
       Result(fs, 1, "AttributeError", "", <<>>, Returned(<<>>), <<>>)
  ELSE
    LET all_available == get_all_available_agents(fs)
        bundled == get_bundled_agents(fs)
        epic == get_epic_agents(fs)
        installed == get_installed_agents(fs)
        agents_to_install ==
          IF bundle = "epic" THEN PrefixAll("epic", Keys(epic, ord))
          ELSE IF all_agents THEN Keys(bundled, ord)
          ELSE IF StartsWith(name, "epic") THEN <<name>>
          ELSE IF name \notin DOMAIN all_available
                  /\ Prefixed("epic", name) \in DOMAIN all_available
               THEN <<Prefixed("epic", name)>>
          ELSE <<name>>
        resolved == Returned(agents_to_install)
    IN IF agents_to_install = <<>>
       THEN Result(fs, 0, "none", "No agents to install", <<>>, resolved, <<>>)
       ELSE Finish(AddAgentLoop(Loop0(mkdir(fs, CLAUDE_AGENTS_DIR)), agents_to_install,
                                all_available, installed, force, fault),
                   "", agents_to_install, resolved)

\* yaml.safe_load of the metadata of a text: the exception it raises, or the
\* value it returns (a mapping with its description, or None).
yaml_safe_load(text) ==
  IF MetaOf(text) = "malformed"
  THEN [raised |-> "YAMLError", value |-> "None", description |-> NoDescription]
  ELSE IF MetaOf(text) = "none"
  THEN [raised |-> "none", value |-> "None", description |-> NoDescription]
  ELSE [raised |-> "none", value |-> "mapping", description |-> DescriptionOf(text)]

\* Both branches hand the metadata of the file to yaml.safe_load: the
\* frontmatter of a *.md file, the whole of a *.yaml file.
load_agent_config(fs, path) == yaml_safe_load(read_text(fs, path))

\* config = load_agent_config(path); desc = config.get("description", ""):
\* .get on None raises AttributeError.
AgentDescription(fs, path) ==
  LET config == load_agent_config(fs, path)
  IN IF config.raised # "none" THEN [raised |-> config.raised, desc |-> NoDescription]
     ELSE IF config.value = "None" THEN [raised |-> "AttributeError", desc |-> NoDescription]
     ELSE [raised |-> "none", desc |-> config.description]

\* One table of list_agents: the rows are built in sorted order, the first
\* exception leaves the loop and the table is not printed.
AgentTable(fs, m, name, mark) ==
  LET names == Sorted(m)
      ds == [k \in DOMAIN names |-> AgentDescription(fs, m[names[k]])]
      bad == {k \in DOMAIN names : ds[k].raised # "none"}
  IN IF bad # {}
     THEN [raised |-> ds[CHOOSE k \in bad : \A j \in bad : k <= j].raised, table |-> NotShown]
     ELSE [raised |-> "none",
           table |-> Shown([k \in DOMAIN names |->
                              Row(name[names[k]], ds[k].desc, mark[names[k]])])]

list_agents(fs, bundled, installed, epic) ==
  LET all == ~bundled /\ ~installed /\ ~epic
      b == bundled \/ all
      i == installed \/ all
      e == epic \/ all
      bundled_agents == get_bundled_agents(fs)
      epic_agents == get_epic_agents(fs)
      installed_agents == get_installed_agents(fs)
      Plain(m) == [n \in DOMAIN m |-> n]
      Epic(m) == [n \in DOMAIN m |-> Prefixed("epic", n)]
      IsInstalled(m) == [n \in DOMAIN m |-> YesNo(n \in DOMAIN installed_agents)]
      Source(m) == [n \in DOMAIN m |->
                      IF n \in DOMAIN bundled_agents THEN "bundled"
                      ELSE IF n \in DOMAIN epic_agents THEN "epic" ELSE "custom"]
      Skip == [raised |-> "none", table |-> NotShown]
      t1 == IF b THEN AgentTable(fs, bundled_agents, Plain(bundled_agents),
                                 IsInstalled(bundled_agents))
            ELSE Skip
      t2 == IF e /\ t1.raised = "none"
            THEN AgentTable(fs, epic_agents, Epic(epic_agents), IsInstalled(epic_agents))
            ELSE Skip
      t3 == IF i /\ t1.raised = "none" /\ t2.raised = "none"
            THEN AgentTable(fs, installed_agents, Plain(installed_agents),
                            Source(installed_agents))
            ELSE Skip
      raised == IF t1.raised # "none" THEN t1.raised
                ELSE IF t2.raised # "none" THEN t2.raised ELSE t3.raised
  IN Listing(IF raised = "none" THEN 0 ELSE 1, raised, "",
             [bundled |-> t1.table, epic |-> t2.table, installed |-> t3.table])

show_agent(fs, name, installed) ==
  LET agents == IF installed THEN get_installed_agents(fs)
                ELSE get_all_available_agents(fs)
      lookup_name == IF StartsWith(name, "epic") THEN name
                     ELSE IF name \notin DOMAIN agents
                             /\ Prefixed("epic", name) \in DOMAIN agents
                          THEN Prefixed("epic", name)
                     ELSE name
  IN IF lookup_name \notin DOMAIN agents
     THEN Listing(1, "Exit", "not found", <<>>)
     ELSE LET d == AgentDescription(fs, agents[lookup_name])
          IN IF d.raised # "none" THEN Listing(1, d.raised, "", <<>>)
             ELSE Listing(0, "none", "", <<read_text(fs, agents[lookup_name])>>)

\* list(installed.keys()): the *.yaml stems, then the *.md stems not seen yet
InstalledAgentKeys(fs, ord) ==
  LET yaml == Scan(fs, CLAUDE_AGENTS_DIR, "yaml")
      md == Scan(fs, CLAUDE_AGENTS_DIR, "md")
      New(k) == k \notin DOMAIN yaml
  IN Keys(yaml, ord) \o SelectSeq(Keys(md, ord), New)

\* A variant of remove without the membership test: installed[name] of a
\* name that is not installed raises KeyError.
remove_agent_NoCheck(fs, name, all_agents, fault, ord) ==
  IF name = NoName /\ ~all_agents
  THEN Exit1(fs, "Provide an agent name or use --all", Returned(<<>>))
  ELSE
    LET installed == get_installed_agents(fs)
        agents_to_remove == IF all_agents THEN InstalledAgentKeys(fs, ord) ELSE <<name>>
    IN IF agents_to_remove = <<>>
       THEN Result(fs, 0, "none", "No matching agents to remove", <<>>, Returned(<<>>), <<>>)
       ELSE IF \E i \in DOMAIN agents_to_remove : agents_to_remove[i] \notin DOMAIN installed
       THEN Result(fs, 1, "KeyError", "", agents_to_remove, Returned(<<>>), <<>>)
       ELSE Finish(RemoveLoop(Loop0(fs), agents_to_remove, installed, fault),
                   "", agents_to_remove, Returned(<<>>))

remove_agent(fs, name, all_agents, fault, ord) ==
  IF name = NoName /\ ~all_agents
  THEN Exit1(fs, "Provide an agent name or use --all", Returned(<<>>))
  ELSE
    LET installed == get_installed_agents(fs)
        agents_to_remove ==
          IF all_agents THEN InstalledAgentKeys(fs, ord)
          ELSE IF name \in DOMAIN installed THEN <<name>> ELSE <<>>
    IN IF agents_to_remove = <<>>
       THEN Result(fs, 0, "none", "No matching agents to remove", <<>>, Returned(<<>>), <<>>)
       ELSE Finish(RemoveLoop(Loop0(fs), agents_to_remove, installed, fault),
                   "", agents_to_remove, Returned(<<>>))

-----------------------------------------------------------------------------
(* Command lines and the environment                                       *)

SkillStems == SourceStems(BUNDLED_SKILLS_DIR)
AgentStems == SourceStems(BUNDLED_AGENTS_DIR)

Args(name, bundle, all) == [name |-> name, bundle |-> bundle, all |-> all]

SkillNameArgs == {Str("foo"), <<"epic", "foo">>, <<"commands", "foo">>, Str("ghost")}
SkillBundleArgs == {"all", "default", "epic", "commands", "minimal", "dev", "bogus"}
AgentNameArgs == {Str("foo"), <<"epic", "foo">>, Str("ghost")}

AddSkillArgs ==
  {Args(n, NoBundle, FALSE) : n \in SkillNameArgs \cup {NoName}}
  \cup {Args(NoName, b, FALSE) : b \in SkillBundleArgs}
  \cup {Args(Str("foo"), "bogus", FALSE)}

RemoveSkillArgs ==
  {Args(n, NoBundle, FALSE) : n \in SkillNameArgs \cup {NoName}}
  \cup {Args(NoName, b, FALSE) : b \in SkillBundleArgs}
  \cup {Args(NoName, NoBundle, TRUE), Args(NoName, "bogus", TRUE),
        Args(Str("foo"), "bogus", FALSE)}

AddAgentArgs ==
  {Args(n, NoBundle, FALSE) : n \in AgentNameArgs \cup {NoName}}
  \cup {Args(NoName, b, a) : b \in {"epic", "bogus"}, a \in BOOLEAN}
  \cup {Args(NoName, NoBundle, TRUE), Args(Str("foo"), "bogus", FALSE)}

RemoveAgentArgs ==
  {Args(n, NoBundle, FALSE) : n \in AgentNameArgs \cup {NoName}}
  \cup {Args(NoName, NoBundle, TRUE)}

\* The installed files of each app on which the environment may inject a fault.
SkillTargets == {Path(CLAUDE_SKILLS_DIR, "foo", "md"), Path(CLAUDE_COMMANDS_DIR, "foo", "md")}
AgentTargets == {Path(CLAUDE_AGENTS_DIR, "foo", "yaml"), Path(CLAUDE_AGENTS_DIR, "foo", "md")}

FaultsOn(targets, kinds) ==
  {NoFault} \cup
  {[dir |-> t.dir, stem |-> t.stem, ext |-> t.ext, kind |-> k] : t \in targets, k \in kinds}

\* A fault on a file the command does not touch changes nothing: the faults
\* worth injecting are those on the files the fault-free run r0 writes or deletes.
Touched(r0) == {r0.report[i].target : i \in DOMAIN r0.report} \ {NoPath}
\* The listing order matters to a command that lists a directory.
OrdersFor(a, S) ==
  IF a.all \/ Truthy(a.bundle) THEN OrdersOf(S) ELSE {CHOOSE o \in OrdersOf(S) : TRUE}

\* again: a forced add of one name repeats the command line run just before it.
Said(cmd, a, force, r, table) ==
  [cmd |-> cmd, name |-> a.name, bundle |-> a.bundle, all |-> a.all, force |-> force,
   exit |-> r.exit, raised |-> r.raised, msg |-> r.msg, todo |-> r.todo,
   resolved |-> r.resolved, report |-> r.report, table |-> table,
   again |-> /\ cmd \in {"add_skill", "add_agent"}
             /\ force /\ a.name # NoName /\ a.bundle = NoBundle /\ ~a.all
             /\ out.cmd = cmd /\ out.name = a.name /\ out.bundle = a.bundle
             /\ out.all = a.all /\ out.force = force]

NoTable == [b \in DOMAIN BUNDLES |-> <<>>]
Quiet == Result(Cur, 0, "none", "", <<>>, Returned(<<>>), <<>>)
Idle == Said("none", Args(NoName, NoBundle, FALSE), FALSE, Quiet, NoTable)

\* One invocation of a command: the file system and the report it leaves.
Run(cmd, a, force, r) ==
  /\ dirs' = r.fs.dirs
  /\ files' = r.fs.files
  /\ out' = Said(cmd, a, force, r, NoTable)
  /\ UNCHANGED <<app, searchVars, procs>>

AddSkill ==
  /\ app = "skill"
  /\ \E a \in AddSkillArgs, force \in BOOLEAN :
       \E ord \in OrdersFor(a, SkillStems) :
         \E fault \in FaultsOn(SkillTargets \cap Touched(add_skill(Cur, a.name, a.bundle,
                                                  force, NoFault, ord)),
                                {"denied"}) :
           Run("add_skill", a, force, add_skill(Cur, a.name, a.bundle, force, fault, ord))

RemoveSkill ==
  /\ app = "skill"
  /\ \E a \in RemoveSkillArgs :
       \E ord \in OrdersFor(a, SkillStems) :
         \E fault \in FaultsOn(SkillTargets \cap Touched(remove_skill(Cur, a.name, a.bundle,
                                                  a.all, NoFault, ord)), {"unlink"}) :
           Run("remove_skill", a, FALSE,
               remove_skill(Cur, a.name, a.bundle, a.all, fault, ord))

ListBundles ==
  /\ app = "skill"
  /\ \E ord \in OrdersOf(SkillStems) :
       out' = Said("bundles", Args(NoName, NoBundle, FALSE), FALSE, Quiet,
                   list_bundles(Cur, ord))
  /\ UNCHANGED <<app, dirs, files, searchVars, procs>>

AddAgent ==
  /\ app = "agent"
  /\ \E a \in AddAgentArgs, force \in BOOLEAN :
       \E ord \in OrdersFor(a, AgentStems) :
         \E fault \in FaultsOn(AgentTargets \cap Touched(add_agent(Cur, a.name, a.all,
                                                  a.bundle, force, NoFault, ord)),
                                {"denied"}) :
           Run("add_agent", a, force,
               add_agent(Cur, a.name, a.all, a.bundle, force, fault, ord))

RemoveAgent ==
  /\ app = "agent"
  /\ \E a \in RemoveAgentArgs :
       \E ord \in OrdersFor(a, AgentStems) :
         \E fault \in FaultsOn(AgentTargets \cap Touched(remove_agent(Cur, a.name, a.all,
                                                  NoFault, ord)), {"unlink"}) :
           Run("remove_agent", a, FALSE, remove_agent(Cur, a.name, a.all, fault, ord))

\* A listing or a show leaves the file system alone; out.all holds the
\* --installed option of a show.
Tell(cmd, name, installed, l) ==
  /\ out' = Said(cmd, Args(name, NoBundle, installed), FALSE,
                 Result(Cur, l.exit, l.raised, l.msg, <<>>, Returned(<<>>), <<>>), l.table)
  /\ UNCHANGED <<app, dirs, files, searchVars, procs>>

\* The options of a list command: none, or one of the tables.
Flags(b, i, e, c) == [bundled |-> b, installed |-> i, epic |-> e, commands |-> c]
ListAgentFlags ==
  {Flags(FALSE, FALSE, FALSE, FALSE), Flags(TRUE, FALSE, FALSE, FALSE),
   Flags(FALSE, TRUE, FALSE, FALSE), Flags(FALSE, FALSE, TRUE, FALSE)}
ListSkillFlags == ListAgentFlags \cup {Flags(FALSE, FALSE, FALSE, TRUE)}

ListSkills ==
  /\ app = "skill"
  /\ \E f \in ListSkillFlags :
       Tell("list_skills", NoName, FALSE,
            list_skills(Cur, f.bundled, f.installed, f.epic, f.commands))

ShowSkill ==
  /\ app = "skill"
  /\ \E name \in SkillNameArgs, installed \in BOOLEAN :
       Tell("show_skill", name, installed, show_skill(Cur, name, installed))

ListAgents ==
  /\ app = "agent"
  /\ \E f \in ListAgentFlags :
       Tell("list_agents", NoName, FALSE, list_agents(Cur, f.bundled, f.installed, f.epic))

ShowAgent ==
  /\ app = "agent"
  /\ \E name \in AgentNameArgs, installed \in BOOLEAN :
       Tell("show_agent", name, installed, show_agent(Cur, name, installed))

\* The bundled data changes between two invocations (a new release of the
\* package adds or drops a definition file).
AppSourceDirs == IF app = "skill" THEN SkillSourceDirs ELSE AgentSourceDirs

AddSourceFile ==
  \E d \in AppSourceDirs \cap dirs, s \in Stems :
    /\ s \in SourceStems(d)
    /\ <<s, SourceExt(d)>> \notin DOMAIN files[d]
    /\ files' = [files EXCEPT ![d] =
                   Merge(@, [k \in {<<s, SourceExt(d)>>} |-> SourceText(d, s)])]
    /\ out' = Idle
    /\ UNCHANGED <<app, dirs, searchVars, procs>>

DelSourceFile ==
  \E d \in AppSourceDirs \cap dirs, f \in {<<s, e>> : s \in Stems, e \in {"md", "yaml"}} :
    /\ f \in DOMAIN files[d]
    /\ files' = [files EXCEPT ![d] = [k \in DOMAIN @ \ {f} |-> @[k]]]
    /\ out' = Idle
    /\ UNCHANGED <<app, dirs, searchVars, procs>>

\* The package as shipped, before any definition file is listed: the source
\* directories of the app exist, ~/.claude holds nothing yet.
Init ==
  /\ app \in {"skill", "agent"}
  /\ dirs = (IF app = "skill" THEN SkillSourceDirs ELSE AgentSourceDirs)
  /\ files = [d \in AllDirs |-> EmptyMap]
  /\ out = [Idle EXCEPT !.again = FALSE]
  /\ NoSearch
  /\ NoProcs

Next ==
  \/ AddSkill
  \/ RemoveSkill
  \/ ListBundles
  \/ AddAgent
  \/ RemoveAgent
  \/ AddSourceFile
  \/ DelSourceFile
  \/ ListSkills
  \/ ShowSkill
  \/ ListAgents
  \/ ShowAgent

Spec == Init /\ [][Next]_vars

-----------------------------------------------------------------------------
(* The listings on definition files whose metadata may not parse: every    *)
(* bundled definition file of the app is present with metadata of any      *)
(* kind, and either nothing is installed or a copy of each default and     *)
(* epic definition is.                                                     *)

SourceFiles(d) == {<<st, SourceExt(d)>> : st \in SourceStems(d)}
Copies(src, d) ==
  IF d = CLAUDE_SKILLS_DIR THEN src[BUNDLED_SKILLS_DIR]
  ELSE IF d = CLAUDE_COMMANDS_DIR THEN src[EPIC_SKILLS_DIR]
  ELSE Merge(src[BUNDLED_AGENTS_DIR], src[EPIC_AGENTS_DIR])

InitList ==
  /\ app \in {"skill", "agent"}
  /\ \E copied \in BOOLEAN :
       \E src \in [AppSourceDirs ->
                    UNION {[SourceFiles(d) -> {TextWith(d, f[1], k) :
                                                 f \in SourceFiles(d), k \in MetaKinds}] :
                           d \in AppSourceDirs}] :
         /\ \A d \in AppSourceDirs :
              /\ DOMAIN src[d] = SourceFiles(d)
              /\ \A f \in SourceFiles(d) : src[d][f][1] = d /\ src[d][f][2] = f[1]
         /\ dirs = AppSourceDirs \cup
                     (IF ~copied THEN {}
                      ELSE IF app = "skill" THEN SkillTargetDirs ELSE AgentTargetDirs)
         /\ files = [d \in AllDirs |->
                       IF d \in AppSourceDirs THEN src[d]
                       ELSE IF d \in dirs THEN Copies(src, d) ELSE EmptyMap]
  /\ out = [Idle EXCEPT !.again = FALSE]
  /\ NoSearch
  /\ NoProcs

NextList ==
  \/ ListSkills
  \/ ShowSkill
  \/ ListAgents
  \/ ShowAgent

SpecList == InitList /\ [][NextList]_vars

-----------------------------------------------------------------------------
(* The install loops on their own: the for loop of add_skill (lines        *)
(* 292-319) and of add_agent (lines 261-283) run on a list of display      *)
(* names that need not come from a bundle.                                 *)

MaxBatch == 3
Lists(S, n) == UNION {[1..k -> S] : k \in 1..n}
BatchNames == {Str("foo"), <<"epic", "foo">>, Str("ghost")}

add_skill_loop(fs, skills_to_install, force) ==
  Finish(AddSkillLoop(Loop0(fs), skills_to_install, get_all_available_skills(fs),
                      force, NoFault),
         "", skills_to_install, Returned(skills_to_install))

add_agent_loop(fs, agents_to_install, force) ==
  Finish(AddAgentLoop(Loop0(mkdir(fs, CLAUDE_AGENTS_DIR)), agents_to_install,
                      get_all_available_agents(fs), get_installed_agents(fs),
                      force, NoFault),
         "", agents_to_install, Returned(agents_to_install))

BatchAddSkill ==
  /\ app = "skill"
  /\ \E todo \in Lists(BatchNames, MaxBatch), force \in BOOLEAN :
       Run("add_skill_loop", Args(NoName, NoBundle, FALSE), force,
           add_skill_loop(Cur, todo, force))

BatchAddAgent ==
  /\ app = "agent"
  /\ \E todo \in Lists(BatchNames, MaxBatch), force \in BOOLEAN :
       Run("add_agent_loop", Args(NoName, NoBundle, FALSE), force,
           add_agent_loop(Cur, todo, force))

\* Every bundled definition file of the app is present, nothing is installed.
InitBatch ==
  /\ app \in {"skill", "agent"}
  /\ dirs = (IF app = "skill" THEN SkillSourceDirs ELSE AgentSourceDirs)
  /\ files = [d \in AllDirs |->
               IF d \in dirs
               THEN [f \in {<<st, SourceExt(d)>> : st \in SourceStems(d)} |->
                       SourceText(d, f[1])]
               ELSE EmptyMap]
  /\ out = [Idle EXCEPT !.again = FALSE]
  /\ NoSearch
  /\ NoProcs

NextBatch ==
  \/ BatchAddSkill
  \/ BatchAddAgent

SpecBatch == InitBatch /\ [][NextBatch]_vars

-----------------------------------------------------------------------------
(* The install loops run on lists of display names that share a target     *)
(* file: epic/foo and commands/foo are both written to                     *)
(* ~/.claude/commands/foo.md, an agent name may occur twice.               *)

MaxShared == 3
SkillSharedNames == {Str("foo"), <<"epic", "foo">>, <<"commands", "foo">>}
AgentSharedNames == {Str("foo"), <<"epic", "foo">>}

SharedAddSkill ==
  /\ app = "skill"
  /\ \E todo \in Lists(SkillSharedNames, MaxShared), force \in BOOLEAN :
       Run("add_skill_loop", Args(NoName, NoBundle, FALSE), force,
           add_skill_loop(Cur, todo, force))

SharedAddAgent ==
  /\ app = "agent"
  /\ \E todo \in Lists(AgentSharedNames, MaxShared), force \in BOOLEAN :
       Run("add_agent_loop", Args(NoName, NoBundle, FALSE), force,
           add_agent_loop(Cur, todo, force))

NextShared ==
  \/ SharedAddSkill
  \/ SharedAddAgent

SpecShared == InitBatch /\ [][NextShared]_vars

-----------------------------------------------------------------------------
(* asutils/confluence/api.py: search_parallel                              *)

MaxQueries == 3     \* the longest list of queries
MaxResults == 2     \* the most results one query returns
MAX_WORKERS == 5

NoPageId == "<None>"            \* r.get("content", {}).get("id") is None
PageIds == {"p1", NoPageId}
SearchResult(page_id) == [page_id |-> page_id]
\* What one call of search may give: an exception (HTTP error, timeout,
\* ...) or a list of results.
Failed == [ok |-> FALSE, results |-> <<>>]
Found(results) == [ok |-> TRUE, results |-> results]
SearchOutcomes ==
  {Failed} \cup
  {Found(rs) : rs \in UNION {[1..k -> {SearchResult(p) : p \in PageIds}] : k \in 0..MaxResults}}

Future(state, outcome, taken) == [state |-> state, outcome |-> outcome, taken |-> taken]
Min(a, b) == IF a <= b THEN a ELSE b
Running == {i \in DOMAIN futures : futures[i].state = "running"}

\* A variant of the inner loop that appends every result.
RECURSIVE Gather_NoDedupe(_, _, _)
Gather_NoDedupe(results, all, seen) ==
  IF results = <<>> THEN [all |-> all, seen |-> seen]
  ELSE Gather_NoDedupe(Tail(results), Append(all, Head(results)),
                       seen \cup {Head(results).page_id})

\* for result in future.result(): if result["page_id"] not in seen_ids: ...
RECURSIVE Gather(_, _, _)
Gather(results, all, seen) ==
  IF results = <<>> THEN [all |-> all, seen |-> seen]
  ELSE IF Head(results).page_id \notin seen
  THEN Gather(Tail(results), Append(all, Head(results)), seen \cup {Head(results).page_id})
  ELSE Gather(Tail(results), all, seen)

\* search_parallel(queries): the executor is created and every query is
\* submitted; ThreadPoolExecutor(max_workers=0) raises ValueError.
SubmitUpTo(max) ==
  /\ pc = "idle"
  /\ \E n \in 0..max :
       IF Min(n, MAX_WORKERS) = 0
       THEN pc' = "ValueError" /\ UNCHANGED <<futures, all_results, seen_ids>>
       ELSE /\ pc' = "collecting"
            /\ futures' = [i \in 1..n |-> Future("pending", Failed, FALSE)]
            /\ all_results' = <<>>
            /\ seen_ids' = {}
  /\ UNCHANGED <<app, dirs, files, out, procs>>

Submit == SubmitUpTo(MaxQueries)

\* A free worker thread takes the oldest pending query.
WorkerStart ==
  /\ pc = "collecting"
  /\ Cardinality(Running) < Min(Len(futures), MAX_WORKERS)
  /\ \E i \in DOMAIN futures :
       /\ futures[i].state = "pending"
       /\ \A j \in 1..(i - 1) : futures[j].state # "pending"
       /\ futures' = [futures EXCEPT ![i].state = "running"]
  /\ UNCHANGED <<app, dirs, files, out, procs, pc, all_results, seen_ids>>

\* search returns or raises in a worker thread.
WorkerFinish ==
  /\ pc = "collecting"
  /\ \E i \in Running, o \in SearchOutcomes :
       futures' = [futures EXCEPT ![i] = Future("finished", o, FALSE)]
  /\ UNCHANGED <<app, dirs, files, out, procs, pc, all_results, seen_ids>>

\* A variant of the loop without the except clause: a failed query aborts
\* the whole search.
Collect_Abort ==
  /\ pc = "collecting"
  /\ \E i \in DOMAIN futures :
       /\ futures[i].state = "finished" /\ ~futures[i].taken
       /\ futures' = [futures EXCEPT ![i].taken = TRUE]
       /\ IF ~futures[i].outcome.ok
          THEN pc' = "raised" /\ UNCHANGED <<all_results, seen_ids>>
          ELSE LET g == Gather(futures[i].outcome.results, all_results, seen_ids)
               IN all_results' = g.all /\ seen_ids' = g.seen /\ pc' = pc
  /\ UNCHANGED <<app, dirs, files, out, procs>>

\* One iteration of for future in as_completed(futures).
Collect ==
  /\ pc = "collecting"
  /\ \E i \in DOMAIN futures :
       /\ futures[i].state = "finished" /\ ~futures[i].taken
       /\ futures' = [futures EXCEPT ![i].taken = TRUE]
       /\ IF ~futures[i].outcome.ok
          THEN UNCHANGED <<all_results, seen_ids>>
          ELSE LET g == Gather(futures[i].outcome.results, all_results, seen_ids)
               IN all_results' = g.all /\ seen_ids' = g.seen
  /\ UNCHANGED <<app, dirs, files, out, procs, pc>>

\* as_completed is exhausted: return all_results
Return ==
  /\ pc = "collecting"
  /\ \A i \in DOMAIN futures : futures[i].taken
  /\ pc' = "done"
  /\ UNCHANGED <<app, dirs, files, out, procs, futures, all_results, seen_ids>>

InitSearch == Init /\ app = "skill"

NextSearch ==
  \/ Submit
  \/ WorkerStart
  \/ WorkerFinish
  \/ Collect
  \/ Return

SpecSearch == InitSearch /\ [][NextSearch]_vars

\* The same call under fair scheduling: every worker thread of the pool
\* runs, every call of search ends (the request carries timeout=30) and the
\* calling thread keeps iterating.
MaxLive == 2        \* the longest list of queries under fair scheduling
SubmitLive == SubmitUpTo(MaxLive)

NextSearchLive ==
  \/ SubmitLive
  \/ WorkerStart
  \/ WorkerFinish
  \/ Collect
  \/ Return

SpecSearchLive ==
  /\ InitSearch /\ [][NextSearchLive]_vars
  /\ WF_vars(WorkerStart) /\ WF_vars(WorkerFinish)
  /\ WF_vars(Collect) /\ WF_vars(Return)

-----------------------------------------------------------------------------
(* asutils/p4/api.py: run_p4, run_p4_checked                               *)

DEFAULT_TIMEOUT == 30
PRINT_TIMEOUT == 60
Timeouts == {DEFAULT_TIMEOUT, PRINT_TIMEOUT}
P4Args == {<<"dirs", "//depot/*">>, <<"fstat", "//depot/f">>, <<"print", "-q", "//depot/f">>}

\* What subprocess.run(["p4"] + args, timeout=timeout) may do: raise
\* TimeoutExpired, raise FileNotFoundError, or return a completed process
\* (a negative return code is the number of the signal that killed p4).
TimeoutExpired == [kind |-> "TimeoutExpired", returncode |-> 0, stdout |-> "", stderr |-> ""]
FileNotFoundError == [kind |-> "FileNotFoundError", returncode |-> 0, stdout |-> "", stderr |-> ""]
Completed(rc, so, se) == [kind |-> "completed", returncode |-> rc, stdout |-> so, stderr |-> se]
ReturnCodes == {0, 1, -1}
Outputs == {"", "text"}
SubprocessRuns ==
  {TimeoutExpired, FileNotFoundError} \cup
  {Completed(rc, so, se) : rc \in ReturnCodes, so \in Outputs, se \in Outputs}

\* run_p4(args, timeout) -> (returncode, stdout, stderr)
run_p4(args, timeout, run) ==
  CASE run.kind = "TimeoutExpired" ->
         <<-1, "", "Command timed out after " \o ToString(timeout) \o "s">>
    [] run.kind = "FileNotFoundError" -> <<-1, "", "p4 command not found">>
    [] OTHER -> <<run.returncode, run.stdout, run.stderr>>

\* run_p4_checked(args, timeout) -> stdout, or raises RuntimeError
run_p4_checked(args, timeout, run) ==
  LET r == run_p4(args, timeout, run)
      code == r[1]
      stdout == r[2]
      stderr == r[3]
  IN IF code # 0
     THEN [raised |-> "RuntimeError", value |-> "",
           msg |-> "p4 " \o args[1] \o " failed: " \o (IF stderr # "" THEN stderr ELSE stdout)]
     ELSE [raised |-> "none", value |-> stdout, msg |-> ""]

P4Said(cmd, args, timeout, run, result) ==
  [cmd |-> cmd, args |-> args, timeout |-> timeout, run |-> run, result |-> result]

RunP4 ==
  /\ \E args \in P4Args, timeout \in Timeouts, run \in SubprocessRuns :
       out' = P4Said("run_p4", args, timeout, run, run_p4(args, timeout, run))
  /\ UNCHANGED <<app, dirs, files, searchVars, procs>>

RunP4Checked ==
  /\ \E args \in P4Args, timeout \in Timeouts, run \in SubprocessRuns :
       out' = P4Said("run_p4_checked", args, timeout, run, run_p4_checked(args, timeout, run))
  /\ UNCHANGED <<app, dirs, files, searchVars, procs>>

InitP4 == Init /\ app = "skill"

NextP4 ==
  \/ RunP4
  \/ RunP4Checked

SpecP4 == InitP4 /\ [][NextP4]_vars

-----------------------------------------------------------------------------
(* Two or more add invocations of one name each, run side by side: an      *)
(* invocation is a process of its own and its file-system calls interleave *)
(* with those of the others.                                               *)

MaxProcs == 2       \* the most invocations running side by side

Proc(at, name, force, source, target, installed_name, absent, outcome, order) ==
  [at |-> at, name |-> name, force |-> force, source |-> source, target |-> target,
   installed_name |-> installed_name, absent |-> absent, outcome |-> outcome,
   order |-> order]

\* The invocation ends before any check: the name is not in the catalog.
NotFoundProc(name, force) ==
  Proc("done", name, force, NoPath, NoPath, name, FALSE, "NotFound", 0)

\* add_skill up to the existence check: the catalog is scanned and the
\* target directory made.
StartSkill(name, force) ==
  LET all_skills == get_all_available_skills(Cur)
      is_epic == StartsWith(name, "epic")
      is_command == StartsWith(name, "commands")
      target_dir == IF is_epic \/ is_command THEN CLAUDE_COMMANDS_DIR
                    ELSE CLAUDE_SKILLS_DIR
      installed_name == IF is_epic \/ is_command THEN SplitTail(name) ELSE name
      target == Path(target_dir, Joined(installed_name), "md")
  IN IF name \notin DOMAIN all_skills
     THEN /\ procs' = Append(procs, NotFoundProc(name, force))
          /\ UNCHANGED dirs
     ELSE /\ procs' = Append(procs, Proc("check", name, force, all_skills[name], target,
                                         installed_name, FALSE, "none", 0))
          /\ dirs' = mkdir(Cur, target_dir).dirs

\* add_agent up to the loop: the catalogs and the installed agents are
\* scanned, the name resolved, the target directory made; the check of the
\* loop body is on the listing read here.
StartAgent(name, force) ==
  LET all_available == get_all_available_agents(Cur)
      installed == get_installed_agents(Cur)
      agent_name == IF StartsWith(name, "epic") THEN name
                    ELSE IF name \notin DOMAIN all_available
                            /\ Prefixed("epic", name) \in DOMAIN all_available
                         THEN Prefixed("epic", name)
                    ELSE name
      installed_name == IF StartsWith(agent_name, "epic") THEN SplitTail(agent_name)
                        ELSE agent_name
  IN /\ dirs' = mkdir(Cur, CLAUDE_AGENTS_DIR).dirs
     /\ procs' = Append(procs,
          IF agent_name \notin DOMAIN all_available THEN NotFoundProc(agent_name, force)
          ELSE IF installed_name \in DOMAIN installed /\ ~force
          THEN Proc("done", agent_name, force, all_available[agent_name],
                    Path(CLAUDE_AGENTS_DIR, Joined(installed_name),
                         all_available[agent_name].ext),
                    installed_name, FALSE, "Skipped", 0)
          ELSE Proc("write", agent_name, force, all_available[agent_name],
                    Path(CLAUDE_AGENTS_DIR, Joined(installed_name),
                         all_available[agent_name].ext),
                    installed_name, installed_name \notin DOMAIN installed, "none", 0))

\* A new invocation starts while the earlier ones are still running or done.
Invoke ==
  /\ Len(procs) < MaxProcs
  /\ \E force \in BOOLEAN :
       IF app = "skill"
       THEN \E name \in SkillSharedNames : StartSkill(name, force)
       ELSE \E name \in AgentSharedNames : StartAgent(name, force)
  /\ UNCHANGED <<app, files, out, searchVars>>

\* if target.exists() and not force: ... continue
CheckTarget ==
  /\ \E p \in DOMAIN procs :
       /\ procs[p].at = "check"
       /\ procs' = [procs EXCEPT ![p] =
            IF exists(Cur, procs[p].target) /\ ~procs[p].force
            THEN [@ EXCEPT !.at = "done", !.outcome = "Skipped"]
            ELSE [@ EXCEPT !.at = "write", !.absent = ~exists(Cur, procs[p].target)]]
  /\ UNCHANGED <<app, dirs, files, out, searchVars>>

Written == {q \in DOMAIN procs : procs[q].order > 0}

\* A variant of the write that creates the file only if it is not there
\* (an exclusive create), and reports a skip otherwise.
WriteTarget_Exclusive ==
  /\ \E p \in DOMAIN procs :
       /\ procs[p].at = "write"
       /\ IF exists(Cur, procs[p].target) /\ ~procs[p].force
          THEN /\ procs' = [procs EXCEPT ![p] = [@ EXCEPT !.at = "done", !.outcome = "Skipped"]]
               /\ UNCHANGED files
          ELSE /\ files' = write_text(Cur, procs[p].target,
                                      read_text(Cur, procs[p].source), NoFault).fs.files
               /\ procs' = [procs EXCEPT ![p] =
                    [@ EXCEPT !.at = "done", !.outcome = "Installed",
                              !.order = Cardinality(Written) + 1]]
  /\ UNCHANGED <<app, dirs, out, searchVars>>

\* target.write_text(source.read_text()) and the line "Added ..."
WriteTarget ==
  /\ \E p \in DOMAIN procs :
       /\ procs[p].at = "write"
       /\ files' = write_text(Cur, procs[p].target,
                              read_text(Cur, procs[p].source), NoFault).fs.files
       /\ procs' = [procs EXCEPT ![p] =
            [@ EXCEPT !.at = "done", !.outcome = "Installed",
                      !.order = Cardinality(Written) + 1]]
  /\ UNCHANGED <<app, dirs, out, searchVars>>

NextRace ==
  \/ Invoke
  \/ CheckTarget
  \/ WriteTarget

SpecRace == InitBatch /\ [][NextRace]_vars

-----------------------------------------------------------------------------
(* asutils/claude/cli.py: setup (also reached as asutils setup)            *)

\* How a call of the permission installer may end: it returns, raises
\* typer.Exit, or lets a file-system error through.  The permission profiles
\* live in directories of their own.
StepOutcomes == {"none", "Exit", "OSError"}
install_profiles(outcome) == [raised |-> outcome]
manage_default(outcome) == [raised |-> outcome]

Step(step, raised, todo, report) ==
  [step |-> step, raised |-> raised, todo |-> todo, report |-> report]

\* What one run of setup leaves: the file system, the steps it entered, in
\* order, with how each ended, and whether "Setup complete!" was printed.
SetupResult(fs, steps, complete) ==
  [fs |-> fs, steps |-> steps, complete |-> complete,
   raised |-> steps[Len(steps)].raised,
   exit |-> IF steps[Len(steps)].raised = "none" THEN 0 ELSE 1]

\* A variant of setup that goes on to the agents when the skill step has
\* raised.
setup_KeepGoing(fs, o1, o2, skill_bundle, force, fault, ord3, ord4) ==
  LET s1 == install_profiles(o1)
      s2 == manage_default(o2)
      s3 == add_skill(fs, NoName, skill_bundle, force, fault, ord3)
      s4 == add_agent(s3.fs, NoName, TRUE, NoBundle, force, fault, ord4)
      t1 == <<Step("install_profiles", s1.raised, <<>>, <<>>)>>
      t2 == Append(t1, Step("manage_default", s2.raised, <<>>, <<>>))
      t3 == Append(t2, Step("add_skill", s3.raised, s3.todo, s3.report))
      t4 == Append(t3, Step("add_agent", s4.raised, s4.todo, s4.report))
  IN IF s1.raised # "none" THEN SetupResult(fs, t1, FALSE)
     ELSE IF s2.raised # "none" THEN SetupResult(fs, t2, FALSE)
     ELSE SetupResult(s4.fs, t4, s4.raised = "none")

\* setup(profile, skill_bundle, force): an exception of a step (typer.Exit
\* included) is not caught and ends the command.
setup(fs, o1, o2, skill_bundle, force, fault, ord3, ord4) ==
  LET s1 == install_profiles(o1)
      s2 == manage_default(o2)
      s3 == add_skill(fs, NoName, skill_bundle, force, fault, ord3)
      s4 == add_agent(s3.fs, NoName, TRUE, NoBundle, force, fault, ord4)
      t1 == <<Step("install_profiles", s1.raised, <<>>, <<>>)>>
      t2 == Append(t1, Step("manage_default", s2.raised, <<>>, <<>>))
      t3 == Append(t2, Step("add_skill", s3.raised, s3.todo, s3.report))
      t4 == Append(t3, Step("add_agent", s4.raised, s4.todo, s4.report))
  IN IF s1.raised # "none" THEN SetupResult(fs, t1, FALSE)
     ELSE IF s2.raised # "none" THEN SetupResult(fs, t2, FALSE)
     ELSE IF s3.raised # "none" THEN SetupResult(s3.fs, t3, FALSE)
     ELSE SetupResult(s4.fs, t4, s4.raised = "none")

SetupSaid(cmd, skill_bundle, force, r) ==
  [cmd |-> cmd, skill_bundle |-> skill_bundle, force |-> force, steps |-> r.steps,
   complete |-> r.complete, raised |-> r.raised, exit |-> r.exit]

\* asutils claude setup (asutils setup hands its arguments to the same
\* function), with any --skills and --force.
Setup ==
  /\ app = "claude"
  /\ out.cmd = "none"
  /\ \E cmd \in {"setup"}, skill_bundle \in SkillBundleArgs,
        force \in BOOLEAN, o1 \in StepOutcomes, o2 \in StepOutcomes :
       \E fault \in FaultsOn(SkillTargets \cup AgentTargets, {"denied"}),
          ord3 \in OrdersOf(SkillStems), ord4 \in OrdersOf(AgentStems) :
         \E r \in {setup(Cur, o1, o2, skill_bundle, force, fault, ord3, ord4)} :
           /\ o1 # "none" => o2 = "none"
           /\ dirs' = r.fs.dirs
           /\ files' = r.fs.files
           /\ out' = SetupSaid(cmd, skill_bundle, force, r)
  /\ UNCHANGED <<app, searchVars, procs>>

\* One run of setup is followed from every state it may start in: the
\* package with any part of its bundled skills and agents, and any of them
\* installed by an earlier run.
InitSetup ==
  /\ app = "claude"
  /\ \E present \in [SourceDirs -> SUBSET Stems],
        skills \in SUBSET SourceStems(BUNDLED_SKILLS_DIR),
        agents \in SUBSET SourceStems(BUNDLED_AGENTS_DIR) :
       /\ \A d \in SourceDirs : present[d] \subseteq SourceStems(d)
       /\ \A d \in SourceDirs \ {BUNDLED_SKILLS_DIR, BUNDLED_AGENTS_DIR} :
            present[d] = SourceStems(d)
       /\ dirs = SourceDirs \cup (IF skills = {} THEN {} ELSE {CLAUDE_SKILLS_DIR})
                            \cup (IF agents = {} THEN {} ELSE {CLAUDE_AGENTS_DIR})
       /\ files = [d \in AllDirs |->
                     IF d \in SourceDirs
                     THEN [f \in {<<st, SourceExt(d)>> : st \in present[d]} |->
                             SourceText(d, f[1])]
                     ELSE IF d = CLAUDE_SKILLS_DIR
                     THEN [f \in {<<st, "md">> : st \in skills} |->
                             SourceText(BUNDLED_SKILLS_DIR, f[1])]
                     ELSE IF d = CLAUDE_AGENTS_DIR
                     THEN [f \in {<<st, "yaml">> : st \in agents} |->
                             SourceText(BUNDLED_AGENTS_DIR, f[1])]
                     ELSE EmptyMap]
  /\ out = [Idle EXCEPT !.again = FALSE]
  /\ NoSearch
  /\ NoProcs

NextSetup ==
  \/ Setup

SpecSetup == InitSetup /\ [][NextSetup]_vars

-----------------------------------------------------------------------------
(* asutils/publish.py: bump, release                                       *)

MaxPart == 2        \* the largest number in a version

PACKAGE_ROOT == "."
DIST == "dist"
INIT_FILE == <<"__init__", "py">>
PYPROJECT == <<"pyproject", "toml">>

\* f"{major}.{minor}.{patch}"
FormatVersion(major, minor, patch) ==
  ToString(major) \o "." \o ToString(minor) \o "." \o ToString(patch)

\* map(int, __version__.split(".")): the three numbers a version string
\* written by bump is made of.
ParseVersion(v) ==
  CHOOSE t \in (0..(MaxPart + 1)) \X (0..(MaxPart + 1)) \X (0..(MaxPart + 1)) :
    FormatVersion(t[1], t[2], t[3]) = v

\* The line of each file that carries the version.
InitLine(v) == "__version__ = \"" \o v \o "\""
PyprojectLine(v) == "version = \"" \o v \o "\""

\* content.replace(old, new) on the version line of a file
Replace(content, old, new) == IF content = old THEN new ELSE content

\* __version__ is read from asutils/__init__.py when the process starts.
RunningVersion(fs) ==
  CHOOSE v \in {FormatVersion(a, b, c) : a \in 0..MaxPart, b \in 0..MaxPart, c \in 0..MaxPart} :
    fs.files[PACKAGE_ROOT][INIT_FILE] = InitLine(v)

BumpResult(fs, exit, raised, new_version) ==
  [fs |-> fs, exit |-> exit, raised |-> raised, new_version |-> new_version]

\* A variant of bump that leaves the minor number when the major one goes up.
bump_KeepMinor(fs, part) ==
  LET version == RunningVersion(fs)
      old == ParseVersion(version)
      new == IF part = "major" THEN <<old[1] + 1, old[2], 0>>
             ELSE IF part = "minor" THEN <<old[1], old[2] + 1, 0>>
             ELSE <<old[1], old[2], old[3] + 1>>
      new_version == FormatVersion(new[1], new[2], new[3])
      init_content == Replace(fs.files[PACKAGE_ROOT][INIT_FILE],
                              InitLine(version), InitLine(new_version))
      pyproject_content == Replace(fs.files[PACKAGE_ROOT][PYPROJECT],
                                   PyprojectLine(version), PyprojectLine(new_version))
  IN IF part \notin {"major", "minor", "patch"}
     THEN BumpResult(fs, 1, "Exit", version)
     ELSE BumpResult([fs EXCEPT !.files[PACKAGE_ROOT] =
                        Merge(@, [k \in {INIT_FILE, PYPROJECT} |->
                                    IF k = INIT_FILE THEN init_content
                                    ELSE pyproject_content])],
                     0, "none", new_version)

\* bump(part)
bump(fs, part) ==
  LET version == RunningVersion(fs)
      old == ParseVersion(version)
      new == IF part = "major" THEN <<old[1] + 1, 0, 0>>
             ELSE IF part = "minor" THEN <<old[1], old[2] + 1, 0>>
             ELSE <<old[1], old[2], old[3] + 1>>
      new_version == FormatVersion(new[1], new[2], new[3])
      init_content == Replace(fs.files[PACKAGE_ROOT][INIT_FILE],
                              InitLine(version), InitLine(new_version))
      pyproject_content == Replace(fs.files[PACKAGE_ROOT][PYPROJECT],
                                   PyprojectLine(version), PyprojectLine(new_version))
  IN IF part \notin {"major", "minor", "patch"}
     THEN BumpResult(fs, 1, "Exit", version)
     ELSE BumpResult([fs EXCEPT !.files[PACKAGE_ROOT] =
                        Merge(@, [k \in {INIT_FILE, PYPROJECT} |->
                                    IF k = INIT_FILE THEN init_content
                                    ELSE pyproject_content])],
                     0, "none", new_version)

BumpParts == {"major", "minor", "patch", "build"}

\* asutils publish bump <part>; the numbers of a version stay within MaxPart.
Bump ==
  /\ app = "publish"
  /\ \E part \in BumpParts :
       \E r \in {bump(Cur, part)} :
         /\ \A i \in 1..3 : ParseVersion(r.new_version)[i] <= MaxPart
         /\ files' = r.fs.files
         /\ out' = [cmd |-> "bump", part |-> part, version |-> RunningVersion(Cur),
                    new_version |-> r.new_version, exit |-> r.exit, raised |-> r.raised]
  /\ UNCHANGED <<app, dirs, searchVars, procs>>

\* What the collaborators of one release do: the exit status of pytest, the
\* answer to the confirmation, and whether build, twine upload, git tag and
\* git push succeed; a failing build may leave a dist directory behind.
ReleaseEnvs ==
  [tests : {0, 1, 5}, confirm : BOOLEAN, build : BOOLEAN, partial : BOOLEAN,
   upload : BOOLEAN, tag : BOOLEAN, push : BOOLEAN]

\* One step release has run, and whether it succeeded.
Ran(step, ok) == [step |-> step, ok |-> ok]
ReleaseResult(fs, steps, exit, raised) ==
  [fs |-> fs, steps |-> steps, exit |-> exit, raised |-> raised]

\* A variant of release that goes on when the tests have failed.
release_IgnoreTests(fs, skip_tests, skip_confirm, env) ==
  LET t1 == IF skip_tests THEN <<>> ELSE <<Ran("pytest", env.tests = 0)>>
      t2 == IF skip_confirm THEN t1 ELSE Append(t1, Ran("confirm", env.confirm))
      cleaned == [fs EXCEPT !.dirs = @ \ {DIST}]
      t3 == IF DIST \in fs.dirs THEN Append(t2, Ran("rmtree", TRUE)) ELSE t2
      t4 == Append(t3, Ran("build", env.build))
      built == [cleaned EXCEPT !.dirs = IF env.build \/ env.partial THEN @ \cup {DIST} ELSE @]
      t5 == Append(t4, Ran("upload", env.upload))
      t6 == Append(t5, Ran("tag", env.tag))
      t7 == Append(t6, Ran("push", env.push))
  IN IF FALSE THEN ReleaseResult(fs, t1, 1, "Exit")
     ELSE IF ~skip_confirm /\ ~env.confirm THEN ReleaseResult(fs, t2, 0, "Exit")
     ELSE IF ~env.build THEN ReleaseResult(built, t4, 1, "CalledProcessError")
     ELSE IF ~env.upload THEN ReleaseResult(built, t5, 1, "CalledProcessError")
     ELSE IF ~env.tag THEN ReleaseResult(built, t6, 1, "CalledProcessError")
     ELSE IF ~env.push THEN ReleaseResult(built, t7, 1, "CalledProcessError")
     ELSE ReleaseResult(built, t7, 0, "none")

\* release(skip_tests, skip_confirm): run (check=True) raises
\* CalledProcessError when its command fails.
release(fs, skip_tests, skip_confirm, env) ==
  LET t1 == IF skip_tests THEN <<>> ELSE <<Ran("pytest", env.tests = 0)>>
      t2 == IF skip_confirm THEN t1 ELSE Append(t1, Ran("confirm", env.confirm))
      cleaned == [fs EXCEPT !.dirs = @ \ {DIST}]
      t3 == IF DIST \in fs.dirs THEN Append(t2, Ran("rmtree", TRUE)) ELSE t2
      t4 == Append(t3, Ran("build", env.build))
      built == [cleaned EXCEPT !.dirs = IF env.build \/ env.partial THEN @ \cup {DIST} ELSE @]
      t5 == Append(t4, Ran("upload", env.upload))
      t6 == Append(t5, Ran("tag", env.tag))
      t7 == Append(t6, Ran("push", env.push))
  IN IF ~skip_tests /\ env.tests # 0 THEN ReleaseResult(fs, t1, 1, "Exit")
     ELSE IF ~skip_confirm /\ ~env.confirm THEN ReleaseResult(fs, t2, 0, "Exit")
     ELSE IF ~env.build THEN ReleaseResult(built, t4, 1, "CalledProcessError")
     ELSE IF ~env.upload THEN ReleaseResult(built, t5, 1, "CalledProcessError")
     ELSE IF ~env.tag THEN ReleaseResult(built, t6, 1, "CalledProcessError")
     ELSE IF ~env.push THEN ReleaseResult(built, t7, 1, "CalledProcessError")
     ELSE ReleaseResult(built, t7, 0, "none")

\* asutils publish release [--skip-tests] [--yes]
Release ==
  /\ app = "publish"
  /\ \E version \in {RunningVersion(Cur)} :
     \E skip_tests \in BOOLEAN, skip_confirm \in BOOLEAN, env \in ReleaseEnvs :
       \E r \in {release(Cur, skip_tests, skip_confirm, env)} :
         /\ dirs' = r.fs.dirs
         /\ out' = [cmd |-> "release", version |-> version,
                    skip_tests |-> skip_tests, skip_confirm |-> skip_confirm,
                    steps |-> r.steps, exit |-> r.exit, raised |-> r.raised]
  /\ UNCHANGED <<app, files, searchVars, procs>>

\* The package at any version, its two version lines in step, no dist
\* directory.
InitPublish ==
  /\ app = "publish"
  /\ dirs = {PACKAGE_ROOT}
  /\ \E a \in 0..MaxPart, b \in 0..MaxPart, c \in 0..MaxPart :
       files = [d \in {PACKAGE_ROOT} |->
                  [k \in {INIT_FILE, PYPROJECT} |->
                     IF k = INIT_FILE THEN InitLine(FormatVersion(a, b, c))
                     ELSE PyprojectLine(FormatVersion(a, b, c))]]
  /\ out = [cmd |-> "none"]
  /\ NoSearch
  /\ NoProcs

NextPublish ==
  \/ Bump
  \/ Release

SpecPublish == InitPublish /\ [][NextPublish]_vars

-----------------------------------------------------------------------------
(* Vocabulary of the properties                                            *)

Before == FS(dirs, files)
After == FS(dirs', files')

IsSkillCmd(cmd) == cmd \in {"add_skill", "remove_skill", "add_skill_loop", "bundles"}
IsAdd(o) == o.cmd \in {"add_skill", "add_agent"}
IsRemove(o) == o.cmd \in {"remove_skill", "remove_agent"}
SingleName(o) == o.name # NoName /\ o.bundle = NoBundle /\ ~o.all

\* The merged catalog the command looks names up in.
Catalog(cmd, fs) ==
  IF IsSkillCmd(cmd) THEN get_all_available_skills(fs)
  ELSE get_all_available_agents(fs)

\* The unprefixed base name of a display name.
BaseName(n) == Str(n[Len(n)])

\* The installed file a display name of the catalog stands for, if there is
\* one: a skill is installed when its target file exists, an agent when the
\* installed listing has its base name.
InstalledFile(cmd, n, fs) ==
  IF IsSkillCmd(cmd)
  THEN {p \in {Path(IF Len(n) > 1 THEN CLAUDE_COMMANDS_DIR ELSE CLAUDE_SKILLS_DIR,
                    Joined(BaseName(n)), "md")} : exists(fs, p)}
  ELSE {get_installed_agents(fs)[k] : k \in {BaseName(n)} \cap DOMAIN get_installed_agents(fs)}

\* The file an add of the catalog name n writes.
TargetOf(cmd, n, fs) ==
  IF IsSkillCmd(cmd)
  THEN Path(IF Len(n) > 1 THEN CLAUDE_COMMANDS_DIR ELSE CLAUDE_SKILLS_DIR,
            Joined(BaseName(n)), "md")
  ELSE Path(CLAUDE_AGENTS_DIR, Joined(BaseName(n)), Catalog(cmd, fs)[n].ext)

\* The names listed as installed, per installed-items directory.
InstalledNames(fs) ==
  [d \in TargetDirs |->
     IF d = CLAUDE_SKILLS_DIR THEN DOMAIN get_installed_skills(fs)
     ELSE IF d = CLAUDE_COMMANDS_DIR THEN DOMAIN get_installed_commands(fs)
     ELSE DOMAIN get_installed_agents(fs)]

-----------------------------------------------------------------------------
(* C1: skip law.  An add without --force of a catalog name whose target    *)
(* name is already installed reports the item as already installed, leaves *)
(* the installed file's text as it was, and (alone on the command line)    *)
(* writes no file at all.                                                  *)
C1_SkipLaw ==
  [][(IsAdd(out') /\ ~out'.force) =>
       /\ \A i \in DOMAIN out'.report :
            LET n == out'.report[i].name
                was == InstalledFile(out'.cmd, n, Before)
            IN (n \in DOMAIN Catalog(out'.cmd, Before) /\ was # {}) =>
                 /\ out'.report[i].outcome = "Skipped"
                 /\ \A p \in was : exists(After, p)
                                   /\ read_text(After, p) = read_text(Before, p)
       /\ (/\ SingleName(out')
           /\ out'.name \in DOMAIN Catalog(out'.cmd, Before)
           /\ InstalledFile(out'.cmd, out'.name, Before) # {})
          => /\ files' = files
             /\ Len(out'.report) = 1 /\ out'.report[1].outcome = "Skipped"]_vars

\* C1 witness: commands/foo was skipped over a file holding another source's text.
C1_Witness ==
  /\ out.cmd = "add_skill" /\ ~out.force /\ out.name = <<"commands", "foo">>
  /\ Len(out.report) = 1 /\ out.report[1].outcome = "Skipped"
  /\ read_text(Cur, out.report[1].target) = SourceText(EPIC_SKILLS_DIR, "foo")
  /\ read_text(Cur, Catalog("add_skill", Cur)[out.name])
       = SourceText(BUNDLED_COMMANDS_DIR, "foo")

-----------------------------------------------------------------------------
(* C2: force idempotence.  When add --force of one catalog name is run     *)
(* twice in succession and no write is refused, both runs report the item  *)
(* as installed and the target file then holds the text of the source.     *)
C2_ForceIdempotent ==
  [][(/\ out'.again /\ out.raised = "none" /\ out'.raised = "none"
      /\ out'.name \in DOMAIN Catalog(out'.cmd, Before))
     => LET t == TargetOf(out'.cmd, out'.name, After)
        IN /\ Len(out.report) = 1 /\ out.report[1].outcome = "Installed"
           /\ Len(out'.report) = 1 /\ out'.report[1].outcome = "Installed"
           /\ out'.report[1].name = out'.name
           /\ exists(After, t)
           /\ read_text(After, t) = read_text(After, Catalog(out'.cmd, After)[out'.name])
           /\ out'.exit = 0]_vars

\* C2 witness: the second forced add of epic/foo has rewritten foo.md.
C2_Witness ==
  /\ out.cmd = "add_agent" /\ out.again /\ out.force /\ out.name = <<"epic", "foo">>
  /\ out.raised = "none" /\ out.report[1].outcome = "Installed"
  /\ read_text(Cur, Path(CLAUDE_AGENTS_DIR, "foo", "md")) = SourceText(EPIC_AGENTS_DIR, "foo")

-----------------------------------------------------------------------------
(* C3: round trip.  An add of one catalog name that was not installed,     *)
(* followed by a remove of the same display name, leaves every             *)
(* installed-items directory with the names it listed before the add.      *)
(* (An add without --force that reports Installed found nothing installed; *)
(* the names before it are those after it less the base name it wrote.)    *)
C3_RoundTrip ==
  [][(/\ IsAdd(out) /\ SingleName(out) /\ ~out.force /\ out.raised = "none"
      /\ Len(out.report) = 1 /\ out.report[1].outcome = "Installed"
      /\ IsRemove(out') /\ SingleName(out') /\ out'.name = out.name
      /\ out'.raised = "none")
     => InstalledNames(After) =
          [InstalledNames(Before) EXCEPT ![out.report[1].target.dir] =
             @ \ {BaseName(out.name)}]]_vars

-----------------------------------------------------------------------------
(* C4: unknown-bundle law.  Resolving a bundle name that is neither        *)
(* dynamic, nor a namespace bundle, nor a key of the static table fails    *)
(* with BundleNotFound; it never returns a sequence.                       *)
C4_UnknownBundleFails ==
  (/\ out.cmd \in {"add_skill", "remove_skill"}
   /\ Truthy(out.bundle) /\ ~out.all
   /\ out.bundle \notin DOMAIN BUNDLES)
  => out.resolved.fail = "BundleNotFound"

-----------------------------------------------------------------------------
(* C5: empty-bundle law.  add --bundle b for a known bundle b that         *)
(* resolves to the empty sequence succeeds: nothing is written, the        *)
(* command ends with exit status 0 and its message is not the one of the   *)
(* unknown-bundle failure.                                                 *)
C5_EmptyBundleSucceeds ==
  [][(/\ out'.cmd = "add_skill" /\ Truthy(out'.bundle)
      /\ out'.bundle \in DOMAIN BUNDLES
      /\ out'.resolved.names = <<>>)
     => /\ out'.exit = 0 /\ out'.raised = "none"
        /\ out'.msg # "Unknown or empty bundle"
        /\ files' = files]_vars

-----------------------------------------------------------------------------
(* C6: an add or remove given an unrecognized bundle name ends with a      *)
(* non-zero exit status and changes no installed file, whatever name or    *)
(* --all accompanies it.                                                   *)
KnownBundles(cmd) == IF IsSkillCmd(cmd) THEN DOMAIN BUNDLES ELSE {"epic"}

C6_BadBundleIsFatal ==
  [][(/\ out'.cmd \in {"add_skill", "remove_skill", "add_agent"}
      /\ Truthy(out'.bundle)
      /\ out'.bundle \notin KnownBundles(out'.cmd))
     => (out'.exit # 0 /\ files' = files)]_vars

-----------------------------------------------------------------------------
(* C7: ItemNotFound is fatal for a single-item request.  An add of one     *)
(* name absent from the merged catalog, or a remove of one name absent     *)
(* from the installed set, ends with a non-zero exit status and writes or  *)
(* deletes no file.                                                        *)
InstalledSet(cmd, fs) ==
  IF IsSkillCmd(cmd) THEN DOMAIN get_installed_skills(fs)
  ELSE DOMAIN get_installed_agents(fs)

C7_MissingItemIsFatal ==
  [][(/\ SingleName(out')
      /\ \/ IsAdd(out') /\ out'.name \notin DOMAIN Catalog(out'.cmd, Before)
                        /\ Len(out'.report) = 1 /\ out'.report[1].outcome = "NotFound"
         \/ IsRemove(out') /\ out'.name \notin InstalledSet(out'.cmd, Before))
     => (out'.exit # 0 /\ files' = files)]_vars

-----------------------------------------------------------------------------
(* C8: batch partial-failure tolerance.  The install loop run on a list of *)
(* display names reports every name missing from the catalog as not found  *)
(* without raising, and treats the other names, before and after a missing *)
(* one, exactly as the loop run on the list without the missing names      *)
(* does; every catalog name of the list is installed when the loop ends.   *)
C8_BatchTolerant ==
  [][(out'.cmd \in {"add_skill_loop", "add_agent_loop"}) =>
       \A names \in {DOMAIN Catalog(out'.cmd, Before)} :
       LET InCat(n) == n \in names
           Real(e) == e.outcome # "NotFound"
           kept == SelectSeq(out'.todo, InCat)
       IN \A ref \in {IF out'.cmd = "add_skill_loop"
                       THEN add_skill_loop(Before, kept, out'.force)
                       ELSE add_agent_loop(Before, kept, out'.force)} :
          /\ out'.raised = "none" /\ out'.exit = 0
          /\ Len(out'.report) = Len(out'.todo)
          /\ \A i \in DOMAIN out'.report :
               /\ out'.report[i].name = out'.todo[i]
               /\ (out'.report[i].outcome = "NotFound") <=> ~InCat(out'.todo[i])
               /\ out'.report[i].outcome = "Installed" =>
                    exists(After, TargetOf(out'.cmd, out'.todo[i], Before))
               /\ InCat(out'.todo[i]) =>
                    /\ out'.report[i].outcome \in {"Installed", "Skipped"}
                    /\ InstalledFile(out'.cmd, out'.todo[i], After) # {}
          /\ SelectSeq(out'.report, Real) = ref.report
          /\ After.files = ref.fs.files]_vars

\* C8 witness: a missing name between two names that were installed.
C8_Witness ==
  /\ out.cmd = "add_skill_loop" /\ Len(out.report) = 3
  /\ out.report[1].outcome = "Installed"
  /\ out.report[2].outcome = "NotFound"
  /\ out.report[3].outcome = "Installed"
  /\ exists(Cur, out.report[1].target) /\ exists(Cur, out.report[3].target)

-----------------------------------------------------------------------------
(* C9: a batch add attempts every item of the resolved list even when the  *)
(* write of one item fails with a file-system error: the items after it    *)
(* are still attempted, and the files of the items before it stay as       *)
(* written.                                                                *)
C9_FailureConfined ==
  [][IsAdd(out') =>
       /\ Len(out'.report) = Len(out'.todo)
       /\ \A i \in DOMAIN out'.report :
            out'.report[i].outcome = "Installed" =>
              /\ exists(After, out'.report[i].target)
              /\ read_text(After, out'.report[i].target)
                   = read_text(After, Catalog(out'.cmd, After)[out'.report[i].name])]_vars

-----------------------------------------------------------------------------
(* C10: the dynamic bundles are live.  Whenever all or default is          *)
(* resolved, by bundles, add --bundle or remove --bundle, the result holds *)
(* exactly the stems of the *.md files the bundled skills directory holds  *)
(* at that moment, each once, whatever the static table stores.            *)
LiveSkills == {Str(f[1]) : f \in {g \in DOMAIN files[BUNDLED_SKILLS_DIR] : g[2] = "md"}}
IsListOf(names, S) == SeqToSet(names) = S /\ Len(names) = Cardinality(S)

C10_DynamicLive ==
  /\ out.cmd = "bundles" =>
       \A b \in {"all", "default"} : IsListOf(out.table[b], LiveSkills)
  /\ (out.cmd \in {"add_skill", "remove_skill"} /\ ~out.all
      /\ out.bundle \in {"all", "default"})
     => IsListOf(out.resolved.names, LiveSkills)

\* C10 witness: bundles shows two skills under all, none of them in the table.
C10_Witness ==
  /\ out.cmd = "bundles"
  /\ Len(out.table["all"]) = 2 /\ BUNDLES["all"] = <<>>
  /\ out.table["default"] = out.table["all"]

-----------------------------------------------------------------------------
(* C11: namespace collision on agents.  When the default catalog holds     *)
(* foo (YAML) and the epic catalog holds foo (Markdown), an add that       *)
(* reports epic/foo as installed leaves an installed listing with exactly  *)
(* one entry named foo, and the file that entry points to holds the text   *)
(* of the epic file and not the default's, whether or not the default foo  *)
(* was installed before.                                                   *)
Count(seq, x) == Cardinality({i \in DOMAIN seq : seq[i] = x})

C11_EpicShadowsDefault ==
  [][(/\ out'.cmd = "add_agent"
      /\ Str("foo") \in DOMAIN get_bundled_agents(Before)
      /\ Str("foo") \in DOMAIN get_epic_agents(Before)
      /\ \E i \in DOMAIN out'.report :
           /\ out'.report[i].name = <<"epic", "foo">>
           /\ out'.report[i].outcome = "Installed")
     => /\ \A ord \in OrdersOf(AgentStems) :
             Count(InstalledAgentKeys(After, ord), Str("foo")) = 1
        /\ Str("foo") \in DOMAIN get_installed_agents(After)
        /\ read_text(After, get_installed_agents(After)[Str("foo")])
             = SourceText(EPIC_AGENTS_DIR, "foo")
        /\ read_text(After, get_installed_agents(After)[Str("foo")])
             # read_text(Before, get_bundled_agents(Before)[Str("foo")])]_vars

\* C11 witness: epic/foo was installed over an installed default foo; both
\* files are on disk and the listing shows the epic one.
C11_Witness ==
  /\ out.cmd = "add_agent" /\ out.name = <<"epic", "foo">>
  /\ Len(out.report) = 1 /\ out.report[1].outcome = "Installed"
  /\ exists(Cur, Path(CLAUDE_AGENTS_DIR, "foo", "yaml"))
  /\ read_text(Cur, Path(CLAUDE_AGENTS_DIR, "foo", "yaml"))
       = SourceText(BUNDLED_AGENTS_DIR, "foo")
  /\ get_installed_agents(Cur)[Str("foo")] = Path(CLAUDE_AGENTS_DIR, "foo", "md")
  /\ read_text(Cur, Path(CLAUDE_AGENTS_DIR, "foo", "md")) = SourceText(EPIC_AGENTS_DIR, "foo")

-----------------------------------------------------------------------------
(* C12: one physical file per target name.  Starting from empty            *)
(* installed-items directories, after any sequence of add and remove       *)
(* operations no installed-items directory holds two files for the same    *)
(* item name.                                                              *)
C12_OneFilePerName ==
  \A d \in TargetDirs : \A f, g \in DOMAIN files[d] : f[1] = g[1] => f = g

-----------------------------------------------------------------------------
(* C13: last install wins.  After the install loop has run on a list of    *)
(* display names, every file the list names holds the text of the source   *)
(* of the last item reported as installed on it, and is as it was before   *)
(* when no item was; without --force a file that existed before the run    *)
(* keeps the text it had.                                                  *)
IsAddLoop(cmd) == cmd \in {"add_skill", "add_agent", "add_skill_loop", "add_agent_loop"}
Largest(S) == CHOOSE i \in S : \A j \in S : j <= i

C13_LastInstallWins ==
  [][IsAddLoop(out'.cmd) =>
       \A p \in Touched(out') :
         LET wrote == {i \in DOMAIN out'.report :
                        out'.report[i].target = p /\ out'.report[i].outcome = "Installed"}
         IN /\ wrote # {} =>
                 /\ exists(After, p)
                 /\ read_text(After, p) =
                      read_text(Before, Catalog(out'.cmd, Before)[out'.report[Largest(wrote)].name])
            /\ wrote = {} =>
                 /\ exists(After, p) = exists(Before, p)
                 /\ exists(Before, p) => read_text(After, p) = read_text(Before, p)
            /\ (~out'.force /\ exists(Before, p)) =>
                 read_text(After, p) = read_text(Before, p)]_vars

\* C13 witness: one forced run installed commands/foo and then epic/foo on
\* the same file, which holds the epic text.
C13_Witness ==
  /\ out.cmd = "add_skill_loop" /\ out.force /\ Len(out.report) = 2
  /\ out.report[1].name = <<"commands", "foo">> /\ out.report[1].outcome = "Installed"
  /\ out.report[2].name = <<"epic", "foo">> /\ out.report[2].outcome = "Installed"
  /\ out.report[1].target = out.report[2].target
  /\ read_text(Cur, out.report[2].target) = SourceText(EPIC_SKILLS_DIR, "foo")

-----------------------------------------------------------------------------
(* C14: per-item state machine.  An item is installed or not.  An add of   *)
(* one catalog name that is not installed, with or without --force and     *)
(* with no write refused, leaves it installed with the text of its source; *)
(* a remove of one installed catalog name, with no unlink refused, leaves   *)
(* it not installed (the installed listing no longer shows it); a list, a  *)
(* show or bundles leaves every file as it was.                            *)
IsInstalled(cmd, n, fs) == InstalledFile(cmd, n, fs) # {}
IsQuery(o) == o.cmd \in {"list_skills", "show_skill", "list_agents", "show_agent", "bundles"}

C14_ItemStateMachine ==
  [][/\ (/\ IsAdd(out') /\ SingleName(out') /\ out'.raised = "none"
          /\ out'.name \in DOMAIN Catalog(out'.cmd, Before)
          /\ ~IsInstalled(out'.cmd, out'.name, Before))
         => /\ IsInstalled(out'.cmd, out'.name, After)
            /\ \A p \in InstalledFile(out'.cmd, out'.name, After) :
                 read_text(After, p) = read_text(Before, Catalog(out'.cmd, Before)[out'.name])
     /\ (/\ IsRemove(out') /\ SingleName(out') /\ out'.raised = "none"
          /\ out'.name \in DOMAIN Catalog(out'.cmd, Before)
          /\ IsInstalled(out'.cmd, out'.name, Before))
         => ~IsInstalled(out'.cmd, out'.name, After)
     /\ IsQuery(out') => (files' = files /\ dirs' = dirs)]_vars

-----------------------------------------------------------------------------
(* C15: namespace stripping.  Every file an add reports as installed is    *)
(* named after the unprefixed base name of the display name; in every      *)
(* reachable state no file of an installed-items directory has a name      *)
(* with a namespace prefix, and no key of an installed listing is a        *)
(* namespaced display name.                                                *)
Namespaces == {"epic", "commands"}
PrefixedStems == {Joined(Prefixed(ns, Str(st))) : ns \in Namespaces, st \in Stems}

C15_NamespaceStripped ==
  /\ \A d \in TargetDirs :
       /\ \A f \in DOMAIN files[d] : f[1] \notin PrefixedStems
       /\ \A k \in InstalledNames(Cur)[d] : Len(k) = 1 /\ k[1] \notin PrefixedStems
  /\ IsAddLoop(out.cmd) =>
       \A i \in DOMAIN out.report :
         out.report[i].outcome = "Installed" =>
           /\ out.report[i].target.stem = Joined(BaseName(out.report[i].name))
           /\ out.report[i].installed_name = BaseName(out.report[i].name)
           /\ exists(Cur, out.report[i].target)

\* C15 witness: commands/foo was installed as ~/.claude/commands/foo.md and
\* is listed as foo.
C15_Witness ==
  /\ out.cmd = "add_skill" /\ out.name = <<"commands", "foo">>
  /\ Len(out.report) = 1 /\ out.report[1].outcome = "Installed"
  /\ out.report[1].target = Path(CLAUDE_COMMANDS_DIR, "foo", "md")
  /\ DOMAIN files[CLAUDE_COMMANDS_DIR] = {<<"foo", "md">>}
  /\ DOMAIN get_installed_commands(Cur) = {Str("foo")}

-----------------------------------------------------------------------------
(* C16: merging catalogs never overwrites.  The merged catalog has exactly *)
(* one entry per default item under its plain name and one per namespaced  *)
(* item under epic/<name> or commands/<name>, each with the path of its    *)
(* own file; a default entry keeps its default path when a namespace holds *)
(* an item of the same base name.                                          *)
PrefixedKeys(ns, m) == {Prefixed(ns, k) : k \in DOMAIN m}
Size(m) == Cardinality(DOMAIN m)

C16_MergeKeepsAll ==
  /\ LET b == get_bundled_skills(Cur)
         e == get_epic_skills(Cur)
         c == get_bundled_commands(Cur)
         all == get_all_available_skills(Cur)
     IN /\ DOMAIN all = DOMAIN b \cup PrefixedKeys("epic", e) \cup PrefixedKeys("commands", c)
        /\ Size(all) = Size(b) + Size(e) + Size(c)
        /\ \A k \in DOMAIN b : all[k] = Path(BUNDLED_SKILLS_DIR, k[1], "md")
        /\ \A k \in DOMAIN e : all[Prefixed("epic", k)] = Path(EPIC_SKILLS_DIR, k[1], "md")
        /\ \A k \in DOMAIN c :
             all[Prefixed("commands", k)] = Path(BUNDLED_COMMANDS_DIR, k[1], "md")
  /\ LET b == get_bundled_agents(Cur)
         e == get_epic_agents(Cur)
         all == get_all_available_agents(Cur)
     IN /\ DOMAIN all = DOMAIN b \cup PrefixedKeys("epic", e)
        /\ Size(all) = Size(b) + Size(e)
        /\ \A k \in DOMAIN b : all[k] = Path(BUNDLED_AGENTS_DIR, k[1], "yaml")
        /\ \A k \in DOMAIN e : all[Prefixed("epic", k)] = Path(EPIC_AGENTS_DIR, k[1], "md")

\* C16 witness: foo is a default agent and an epic agent; the catalog holds
\* both, each with its own file.
C16_Witness ==
  /\ exists(Cur, Path(BUNDLED_AGENTS_DIR, "foo", "yaml"))
  /\ exists(Cur, Path(EPIC_AGENTS_DIR, "foo", "md"))
  /\ get_all_available_agents(Cur)[Str("foo")] = Path(BUNDLED_AGENTS_DIR, "foo", "yaml")
  /\ get_all_available_agents(Cur)[<<"epic", "foo">>] = Path(EPIC_AGENTS_DIR, "foo", "md")

-----------------------------------------------------------------------------
(* C17: malformed metadata never aborts a listing.  Every list command     *)
(* completes without raising whatever the metadata of the definition files *)
(* is; each table it prints has one row per item, with an empty            *)
(* description for an item whose metadata fails to parse or parses to no   *)
(* mapping and with its own description for every other item.              *)
ExpectedDescription(fs, path) ==
  IF MetaOf(read_text(fs, path)) = "mapping" THEN DescriptionOf(read_text(fs, path))
  ELSE NoDescription

\* The table t lists the items of m, named under the namespace ns ("" for
\* none), each with the description expected of its file.
Describes(t, m, ns) ==
  t.shown =>
    /\ Len(t.rows) = Size(m)
    /\ \A k \in DOMAIN m :
         \E i \in DOMAIN t.rows :
           /\ t.rows[i].name = (IF ns = "" THEN k ELSE Prefixed(ns, k))
           /\ t.rows[i].desc = ExpectedDescription(Cur, m[k])

C17_ListingSurvivesBadMetadata ==
  /\ out.cmd = "list_skills" =>
       /\ out.raised = "none" /\ out.exit = 0
       /\ Describes(out.table.epic, get_epic_skills(Cur), "epic")
       /\ Describes(out.table.commands, get_bundled_commands(Cur), "commands")
       /\ out.table.bundled.shown => Len(out.table.bundled.rows) = Size(get_bundled_skills(Cur))
  /\ out.cmd = "list_agents" =>
       /\ out.raised = "none" /\ out.exit = 0
       /\ Describes(out.table.bundled, get_bundled_agents(Cur), "")
       /\ Describes(out.table.epic, get_epic_agents(Cur), "epic")
       /\ Describes(out.table.installed, get_installed_agents(Cur), "")

-----------------------------------------------------------------------------
(* C18: ownership.  No command (list, show, bundles, add, remove) creates, *)
(* modifies or deletes a file of a source directory, and only add and      *)
(* remove change what an installed-items directory holds.                  *)
C18_Ownership ==
  [][out'.cmd # "none" =>
       /\ \A d \in SourceDirs : files'[d] = files[d]
       /\ SourceDirs \cap dirs' = SourceDirs \cap dirs
       /\ ~(IsAdd(out') \/ IsRemove(out')) =>
            /\ \A d \in TargetDirs : files'[d] = files[d]
            /\ dirs' = dirs]_vars

\* C18 witness: remove has deleted the installed foo; the bundled foo it was
\* copied from is still there.
C18_Witness ==
  /\ out.cmd = "remove_skill" /\ out.name = Str("foo")
  /\ Len(out.report) = 1 /\ out.report[1].outcome = "Removed"
  /\ ~exists(Cur, Path(CLAUDE_SKILLS_DIR, "foo", "md"))
  /\ exists(Cur, Path(BUNDLED_SKILLS_DIR, "foo", "md"))
  /\ read_text(Cur, Path(BUNDLED_SKILLS_DIR, "foo", "md")) = SourceText(BUNDLED_SKILLS_DIR, "foo")

-----------------------------------------------------------------------------
(* C19: remove of an absent name is a no-op.  A remove of one name that is *)
(* not in the installed set deletes nothing and leaves every installed     *)
(* file as it was; remove --all on an empty or absent installed directory  *)
(* reports that nothing matches, without raising.                          *)
NothingToRemove(cmd) ==
  IF cmd = "remove_skill" THEN "No matching skills to remove"
  ELSE "No matching agents to remove"

C19_RemoveAbsentIsNoOp ==
  [][IsRemove(out') =>
       /\ (SingleName(out') /\ out'.name \notin InstalledSet(out'.cmd, Before))
          => /\ files' = files /\ dirs' = dirs
             /\ out'.report = <<>> /\ out'.raised = "none"
       /\ (out'.all /\ InstalledSet(out'.cmd, Before) = {})
          => /\ files' = files /\ dirs' = dirs
             /\ out'.report = <<>> /\ out'.raised = "none"
             /\ out'.msg = NothingToRemove(out'.cmd)]_vars

\* C19 witness: a remove of ghost, which is not installed, has left the
\* installed agent foo in place.
C19_Witness ==
  /\ out.cmd = "remove_agent" /\ out.name = Str("ghost")
  /\ out.msg = "No matching agents to remove" /\ out.raised = "none"
  /\ exists(Cur, Path(CLAUDE_AGENTS_DIR, "foo", "yaml"))
  /\ read_text(Cur, Path(CLAUDE_AGENTS_DIR, "foo", "yaml")) = SourceText(BUNDLED_AGENTS_DIR, "foo")

-----------------------------------------------------------------------------
(* C20: search_parallel deduplicates under every completion order.         *)
(* Whatever the queries return and in whatever order their futures         *)
(* complete, the list returned holds no two results with the same page_id  *)
(* and its page_ids are exactly those returned by the queries that         *)
(* succeeded.                                                              *)
Succeeded == {i \in DOMAIN futures : futures[i].state = "finished" /\ futures[i].outcome.ok}
PageIdsOf(results) == {results[k].page_id : k \in DOMAIN results}

C20_Deduplicated ==
  pc = "done" =>
    /\ \A i, j \in DOMAIN all_results :
         all_results[i].page_id = all_results[j].page_id => i = j
    /\ PageIdsOf(all_results) = UNION {PageIdsOf(futures[i].outcome.results) : i \in Succeeded}

\* C20 witness: two queries returned the same page, a third one failed, and
\* the page is in the result once.
C20_Witness ==
  /\ pc = "done" /\ Len(futures) = 3
  /\ \E i, j, k \in DOMAIN futures :
       /\ i # j /\ ~futures[k].outcome.ok
       /\ {i, j} \subseteq Succeeded
       /\ "p1" \in PageIdsOf(futures[i].outcome.results)
                 \cap PageIdsOf(futures[j].outcome.results)
  /\ Cardinality({n \in DOMAIN all_results : all_results[n].page_id = "p1"}) = 1

-----------------------------------------------------------------------------
(* C21: search_parallel tolerates failing queries.  Once the queries are   *)
(* submitted, whichever of them raise (all of them included), the call     *)
(* never raises: taking a failed future changes neither the result list    *)
(* nor the control state, the call returns, and when it returns every      *)
(* future has been waited for and every result of every query that         *)
(* succeeded is in the list.                                               *)
FailedQueries == {i \in DOMAIN futures : futures[i].state = "finished" /\ ~futures[i].outcome.ok}

C21_ToleratesFailures ==
  /\ [][pc = "collecting" =>
         /\ pc' \in {"collecting", "done"}
         /\ \A i \in FailedQueries :
              (~futures[i].taken /\ futures'[i].taken) =>
                all_results' = all_results /\ seen_ids' = seen_ids /\ pc' = pc]_vars
  /\ [](pc = "done" =>
         /\ \A i \in DOMAIN futures : futures[i].state = "finished" /\ futures[i].taken
         /\ \A i \in Succeeded :
              PageIdsOf(futures[i].outcome.results) \subseteq PageIdsOf(all_results))
  /\ (pc = "collecting" ~> pc = "done")

\* C21 witness: of two queries one raised, and the call returned the
\* results of the other.
C21_Witness ==
  /\ pc = "done" /\ Len(futures) = 2
  /\ Cardinality(FailedQueries) = 1
  /\ \E i \in Succeeded :
       /\ Len(futures[i].outcome.results) = 2
       /\ PageIdsOf(all_results) = PageIdsOf(futures[i].outcome.results)
       /\ Len(all_results) = 2

-----------------------------------------------------------------------------
(* C22: a timeout is a failure kind of its own.  The outcome of run_p4 and *)
(* of run_p4_checked for a command that timed out differs, in something    *)
(* other than the text of its message, from the outcome of the same call   *)
(* when the p4 executable is missing and when the command exits non-zero.  *)
IsP4(o) == o.cmd \in {"run_p4", "run_p4_checked"}
\* An outcome without its message text: the return code and standard
\* output of run_p4, the exception class or returned value of
\* run_p4_checked.
KindOf(cmd, result) ==
  IF cmd = "run_p4" THEN <<result[1], result[2]>>
  ELSE <<result.raised, result.value>>
Rerun(o, run) ==
  IF o.cmd = "run_p4" THEN run_p4(o.args, o.timeout, run)
  ELSE run_p4_checked(o.args, o.timeout, run)
OtherFailures == {r \in SubprocessRuns : r.kind = "FileNotFoundError" \/ (r.kind = "completed" /\ r.returncode # 0)}

C22_TimeoutIsDistinct ==
  (IsP4(out) /\ out.run.kind = "TimeoutExpired") =>
    \A run \in OtherFailures :
      KindOf(out.cmd, out.result) # KindOf(out.cmd, Rerun(out, run))

-----------------------------------------------------------------------------
(* C23: extension asymmetry.  Every file the agent installer reports as    *)
(* installed has the extension of its source file (yaml for a default      *)
(* agent, md for an epic agent) and every file the skill installer reports *)
(* as installed has the extension md; after the add, the installed-state   *)
(* reader of the directory written to lists that file under the name the   *)
(* add reported.                                                           *)
InstalledReader(cmd, d, fs) ==
  IF cmd = "add_agent" THEN get_installed_agents(fs)
  ELSE IF d = CLAUDE_COMMANDS_DIR THEN get_installed_commands(fs)
  ELSE get_installed_skills(fs)

C23_ExtensionAsymmetry ==
  [][IsAdd(out') =>
       \A i \in DOMAIN out'.report :
         out'.report[i].outcome = "Installed" =>
           LET e == out'.report[i]
               listing == InstalledReader(out'.cmd, e.target.dir, After)
           IN /\ e.target.ext = (IF out'.cmd = "add_skill" THEN "md"
                                 ELSE Catalog(out'.cmd, Before)[e.name].ext)
              /\ e.installed_name \in DOMAIN listing
              /\ listing[e.installed_name] = e.target]_vars

-----------------------------------------------------------------------------
(* C24: concurrent invocations are undefended.  Two add invocations        *)
(* without --force that both passed the existence check while their common *)
(* target was absent both report the item as installed, and once both are  *)
(* done the target holds the text written by the later of the two; nothing *)
(* keeps both from passing the check before either writes.                 *)
Racing(p, q) ==
  /\ p # q
  /\ ~procs[p].force /\ ~procs[q].force
  /\ procs[p].target = procs[q].target
  /\ procs[p].absent /\ procs[q].absent

C24_RaceUndefended ==
  \A p, q \in DOMAIN procs :
    (Racing(p, q) /\ procs[p].at = "done" /\ procs[q].at = "done"
       /\ procs[p].order < procs[q].order
       /\ \A r \in Written : procs[r].target = procs[p].target => procs[r].order <= procs[q].order) =>
      /\ procs[p].outcome = "Installed" /\ procs[q].outcome = "Installed"
      /\ read_text(Cur, procs[q].target) = read_text(Cur, procs[q].source)

\* C24 witness: add epic/foo and add commands/foo, both without --force,
\* both found ~/.claude/commands/foo.md absent; both reported it installed
\* and the file holds the text of the one that wrote second.
C24_Witness ==
  /\ app = "skill" /\ Len(procs) = 2
  /\ Racing(1, 2)
  /\ procs[1].name = <<"epic", "foo">> /\ procs[2].name = <<"commands", "foo">>
  /\ procs[1].outcome = "Installed" /\ procs[2].outcome = "Installed"
  /\ procs[1].order = 2 /\ procs[2].order = 1
  /\ read_text(Cur, Path(CLAUDE_COMMANDS_DIR, "foo", "md")) = SourceText(EPIC_SKILLS_DIR, "foo")

-----------------------------------------------------------------------------
(* C25: remove_skill never deletes a file of the commands directory.       *)
(* Whatever the name, --bundle and --all given, the files of               *)
(* ~/.claude/commands and the listing of installed commands are the same   *)
(* after remove_skill as before: what was installed through epic/<name> or *)
(* commands/<name> stays installed.                                        *)
C25_CommandsUntouched ==
  [][out'.cmd = "remove_skill" =>
       /\ files'[CLAUDE_COMMANDS_DIR] = files[CLAUDE_COMMANDS_DIR]
       /\ (CLAUDE_COMMANDS_DIR \in dirs') = (CLAUDE_COMMANDS_DIR \in dirs)
       /\ get_installed_commands(After) = get_installed_commands(Before)]_vars

\* C25 witness: remove --all has deleted every installed skill, and the
\* command foo installed in ~/.claude/commands is still there.
C25_Witness ==
  /\ out.cmd = "remove_skill" /\ out.all /\ out.raised = "none"
  /\ \E i \in DOMAIN out.report : out.report[i].outcome = "Removed"
  /\ DOMAIN get_installed_skills(Cur) = {}
  /\ Str("foo") \in DOMAIN get_installed_commands(Cur)
  /\ exists(Cur, Path(CLAUDE_COMMANDS_DIR, "foo", "md"))

-----------------------------------------------------------------------------
(* C26: remove_skill --bundle is exact.  remove_skill --bundle b (without  *)
(* --all) deletes no installed skill other than those whose names the      *)
(* bundle resolves to, and when no unlink is refused it deletes every one   *)
(* of those; remove_skill of one name deletes at most the file of that     *)
(* name; every installed skill that is not deleted, a custom skill absent  *)
(* from the catalog included, keeps its text.                              *)
Deleted(d) == DOMAIN files[d] \ DOMAIN files'[d]
Resolve(bundle, fs) ==
  SeqToSet(get_bundle_skills(bundle, CHOOSE o \in OrdersOf(SkillStems) : TRUE, fs).names)
FilesOf(names) == {<<Joined(n), "md">> : n \in names}

C26_RemoveBundleExact ==
  [][(out'.cmd = "remove_skill" /\ ~out'.all) =>
       /\ DOMAIN files'[CLAUDE_SKILLS_DIR] \subseteq DOMAIN files[CLAUDE_SKILLS_DIR]
       /\ \A f \in DOMAIN files'[CLAUDE_SKILLS_DIR] :
            files'[CLAUDE_SKILLS_DIR][f] = files[CLAUDE_SKILLS_DIR][f]
       /\ Truthy(out'.bundle) =>
            \A mine \in {FilesOf(Resolve(out'.bundle, Before)
                                  \cap DOMAIN get_installed_skills(Before))} :
              /\ Deleted(CLAUDE_SKILLS_DIR) \subseteq mine
              /\ out'.raised = "none" => Deleted(CLAUDE_SKILLS_DIR) = mine
       /\ SingleName(out') =>
            /\ Deleted(CLAUDE_SKILLS_DIR) \subseteq FilesOf({out'.name})
            /\ Cardinality(Deleted(CLAUDE_SKILLS_DIR)) <= 1]_vars

\* C26 witness: remove --bundle dev has deleted claude-hooks and left foo,
\* a skill that is installed but no longer in the catalog.
C26_Witness ==
  /\ out.cmd = "remove_skill" /\ out.bundle = "dev" /\ ~out.all
  /\ Len(out.report) = 1 /\ out.report[1].outcome = "Removed"
  /\ out.report[1].name = Str("claude-hooks")
  /\ DOMAIN files[CLAUDE_SKILLS_DIR] = {<<"foo", "md">>}
  /\ Str("foo") \notin DOMAIN get_all_available_skills(Cur)

-----------------------------------------------------------------------------
(* C27: setup runs its steps in a fixed order and stops at the first that  *)
(* fails.  The steps setup enters are an initial part of permission        *)
(* profiles, default profile, skill bundle, agents, in this order; a step   *)
(* is entered only if every step before it returned; a step that was not   *)
(* entered has changed no file; and whenever "Setup complete!" is printed   *)
(* the add of the skill bundle and the add of all bundled agents have both  *)
(* returned, each with one report line for every name of its list.         *)
SetupOrder == <<"install_profiles", "manage_default", "add_skill", "add_agent">>

C27_SetupOrdered ==
  [][out'.cmd = "setup" =>
       /\ Len(out'.steps) \in 1..Len(SetupOrder)
       /\ \A i \in DOMAIN out'.steps :
            /\ out'.steps[i].step = SetupOrder[i]
            /\ i < Len(out'.steps) => out'.steps[i].raised = "none"
       /\ Len(out'.steps) < 3 => \A d \in SkillTargetDirs : files'[d] = files[d]
       /\ Len(out'.steps) < 4 => \A d \in AgentTargetDirs : files'[d] = files[d]
       /\ out'.complete =>
            /\ Len(out'.steps) = 4
            /\ \A i \in {3, 4} :
                 /\ out'.steps[i].raised = "none"
                 /\ Len(out'.steps[i].report) = Len(out'.steps[i].todo)
            /\ out'.exit = 0]_vars

\* C27 witness: setup printed "Setup complete!" after installing the
\* bundled skill foo and the bundled agent foo.
C27_Witness ==
  /\ out.cmd = "setup" /\ out.complete /\ out.skill_bundle = "default"
  /\ \E i \in DOMAIN out.steps[3].report : out.steps[3].report[i].outcome = "Installed"
  /\ \E i \in DOMAIN out.steps[4].report : out.steps[4].report[i].outcome = "Installed"
  /\ exists(Cur, Path(CLAUDE_SKILLS_DIR, "foo", "md"))
  /\ exists(Cur, Path(CLAUDE_AGENTS_DIR, "foo", "yaml"))

-----------------------------------------------------------------------------
(* C28: publish release is gated and ordered.  The upload is run only      *)
(* after the tests passed or --skip-tests was given, the confirmation was   *)
(* accepted or --yes was given, and the build succeeded; git tag and git    *)
(* push are run only after a successful upload; and a step that failed (a   *)
(* failing test run, a declined confirmation, a failing build, upload or    *)
(* tag) is the last step of the run.                                        *)
StepsRun(o) == {o.steps[i].step : i \in DOMAIN o.steps}
Passed(o, step) == \E i \in DOMAIN o.steps : o.steps[i].step = step /\ o.steps[i].ok
Position(o, step) == CHOOSE i \in DOMAIN o.steps : o.steps[i].step = step
Precedes(o, a, b) ==
  (a \in StepsRun(o) /\ b \in StepsRun(o)) => Position(o, a) < Position(o, b)

C28_ReleaseGated ==
  out.cmd = "release" =>
    /\ "upload" \in StepsRun(out) =>
         /\ out.skip_tests \/ Passed(out, "pytest")
         /\ out.skip_confirm \/ Passed(out, "confirm")
         /\ Passed(out, "build")
         /\ \A s \in {"pytest", "confirm", "build"} : Precedes(out, s, "upload")
    /\ \A s \in {"tag", "push"} :
         s \in StepsRun(out) => Passed(out, "upload") /\ Precedes(out, "upload", s)
    /\ Precedes(out, "tag", "push")
    /\ \A i \in DOMAIN out.steps : ~out.steps[i].ok => i = Len(out.steps)
    /\ (out.exit = 0 /\ out.raised = "none") => Passed(out, "push")

\* C28 witness: a release with tests and confirmation went through to the
\* push.
C28_Witness ==
  /\ out.cmd = "release" /\ ~out.skip_tests /\ ~out.skip_confirm
  /\ Passed(out, "pytest") /\ Passed(out, "confirm") /\ Passed(out, "build")
  /\ Passed(out, "upload") /\ Passed(out, "tag") /\ Passed(out, "push")
  /\ out.exit = 0 /\ DIST \in dirs

-----------------------------------------------------------------------------
(* C29: publish bump computes the next version from (major, minor, patch). *)
(* major gives (major+1, 0, 0), minor gives (major, minor+1, 0), patch      *)
(* gives (major, minor, patch+1); any other part ends the command with      *)
(* status 1 and leaves __init__.py and pyproject.toml as they were; on      *)
(* success both files carry the same new version.                           *)
VersionIn(fs, file) ==
  CHOOSE t \in (0..(MaxPart + 1)) \X (0..(MaxPart + 1)) \X (0..(MaxPart + 1)) :
    fs.files[PACKAGE_ROOT][file] \in {InitLine(FormatVersion(t[1], t[2], t[3])),
                                      PyprojectLine(FormatVersion(t[1], t[2], t[3]))}

====
